---- MODULE Spec2Model ----
(***************************************************************************)
(* Incremental mesh compression of Kimera-PGMO:                            *)
(*   kimera_pgmo::MeshCompression::compressAndIntegrate (flat and block)   *)
(*   kimera_pgmo::MeshCompression::pruneStoredMesh                         *)
(* the octree compressor it replaced:                                      *)
(*   kimera_pgmo::OctreeCompression::compressAndIntegrate, pruneStoredMesh *)
(* and the map of the mesher_mapper node:                                  *)
(*   mesher_mapper::OctreeCompression::InsertMesh                          *)
(* VertexIds, active-slot indices, polygon indices and input indices are   *)
(* 0-based as in the source; TLA+ sequences are 1-based, so At(s, i) reads *)
(* element i of a std::vector.                                             *)
(***************************************************************************)
EXTENDS Integers, Sequences, FiniteSets, TLC

VARIABLES all_vertices_, polygons_, adjacent_polygons_, active_vertices_xyz_,
          active_vertices_index_, vertices_latest_time_, structure_,
          max_stamp_seen, last_stamp_seen,
          \* kimera_pgmo::OctreeCompression: its active cloud and octree (its
          \* other members have the names of MeshCompression's and use the
          \* variables above), and whether an access outside a vector has
          \* ended the process
          active_vertices_, octree_, crashed,
          \* mesher_mapper::OctreeCompression
          map_data_, map_octree_

vars == <<all_vertices_, polygons_, adjacent_polygons_, active_vertices_xyz_,
          active_vertices_index_, vertices_latest_time_, structure_,
          max_stamp_seen, last_stamp_seen, active_vertices_, octree_, crashed,
          map_data_, map_octree_>>

\* ------------------------------------------------------------------ bounds
\* edge of a cell of the spatial index, in grid units
Resolution == 2
\* cells 0 .. NumCells-1 hold the input positions
NumCells == 3
\* cells with two input positions
TwoPointCells == 1
\* stamps are 1 .. MaxStamp, prune cutoffs 0 .. MaxStamp
MaxStamp == 2
\* the store is explored while all_vertices_ and polygons_ stay this short
MaxAll == 4
MaxPolys == 2
\* a flat batch has at most MaxIn vertices and MaxFaces faces
MaxIn == 4
MaxFaces == 2
\* vertices of a batch in a cell that an earlier vertex of the batch is in
MaxRepeats == 1
\* a block batch has at most MaxBlocks blocks
MaxBlocks == 1

\* ------------------------------------------------------------------ helpers
At(s, i) == s[i + 1]

EmptyMap == [k \in {} |-> 0]

\* std::map / unordered_map operator[]= : insert or overwrite
Put(f, k, v) == [x \in (DOMAIN f) \cup {k} |-> IF x = k THEN v ELSE f[x]]

\* std::map::insert : keeps an existing entry
Insert(f, k, v) == IF k \in DOMAIN f THEN f ELSE Put(f, k, v)

Range(s) == {s[i] : i \in DOMAIN s}

\* position of a point (pcl::PointXYZ p_xyz(p.x, p.y, p.z)): the colour is dropped
XYZ(p) == p.x

\* ----------------------------------------------------- spatial index (sec. 4.1)
\* quantised coordinate of a position at the index resolution
Cell(x) == x \div Resolution

\* the index after the last point of cloud was appended: a cell keeps the slot of
\* the first point that landed in it
updateStructure(index, cloud) ==
  LET c == Cell(cloud[Len(cloud)])
  IN  Insert(index, c, Len(cloud) - 1)

RECURSIVE BuildStructure(_, _)
BuildStructure(cloud, n) ==
  IF n = 0 THEN EmptyMap
  ELSE updateStructure(BuildStructure(cloud, n - 1), SubSeq(cloud, 1, n))

\* drop all state and rebuild from the given positions
reInitializeStructure(cloud) == BuildStructure(cloud, Len(cloud))

\* TRUE when no stored point shares the cell of p_xyz
checkIfVertexUnique(index, p_xyz) == Cell(p_xyz) \notin DOMAIN index

\* the slot written to *result_idx when checkIfVertexUnique returns false
ResultIdx(index, p_xyz) == index[Cell(p_xyz)]

\* ------------------------------------------------------------ SurfaceExists
SameVertexSet(s, t) == Range(s) = Range(t)

SurfaceExists(new_surface, adjacent_surfaces, surfaces) ==
  \E v \in Range(new_surface) :
     /\ v \in DOMAIN adjacent_surfaces
     /\ \E j \in Range(adjacent_surfaces[v]) :
           SameVertexSet(At(surfaces, j), new_surface)

\* ------------------------------------------------------------------- store
Store ==
  [all_vertices_          |-> all_vertices_,
   polygons_              |-> polygons_,
   adjacent_polygons_     |-> adjacent_polygons_,
   active_vertices_xyz_   |-> active_vertices_xyz_,
   active_vertices_index_ |-> active_vertices_index_,
   vertices_latest_time_  |-> vertices_latest_time_,
   structure_             |-> structure_]

EmptyStore ==
  [all_vertices_          |-> <<>>,
   polygons_              |-> <<>>,
   adjacent_polygons_     |-> EmptyMap,
   active_vertices_xyz_   |-> <<>>,
   active_vertices_index_ |-> <<>>,
   vertices_latest_time_  |-> <<>>,
   structure_             |-> EmptyMap]

\* ------------------------------------- compressAndIntegrate, shared pieces
\* a reindexed face that is not a triangle of three different vertices
Degenerate(reindex_s) ==
  \/ Len(reindex_s) < 3
  \/ reindex_s[1] = reindex_s[2]
  \/ reindex_s[2] = reindex_s[3]
  \/ reindex_s[3] = reindex_s[1]

\* the per-call temporaries before the first input vertex is read
InitTemporaries(S) ==
  [reindex                      |-> EmptyMap,
   temp_reindex                 |-> <<>>,
   potential_new_vertices       |-> <<>>,
   potential_new_vertices_check |-> <<>>,
   temp_new_vertices            |-> <<>>,
   temp_structure               |-> EmptyMap,
   new_indices                  |-> <<>>,
   vertices_latest_time_        |-> S.vertices_latest_time_]

\* first iteration through the faces: a provisional vertex is kept when a
\* non-degenerate face with a new vertex uses it
FirstPassFace(check, temp_reindex, s, num_original_vertices) ==
  LET reindex_s == [k \in 1..Len(s) |-> At(temp_reindex, s[k])]
      has_new_vertex == \E k \in 1..Len(s) : reindex_s[k] >= num_original_vertices
  IN  IF ~has_new_vertex THEN check
      ELSE IF Degenerate(reindex_s) THEN check
      ELSE [k \in 1..Len(check) |->
              check[k] \/ (num_original_vertices + k - 1) \in Range(reindex_s)]

\* the face with every index replaced by its reindex entry; indices without an
\* entry are left out
RECURSIVE ReindexFace(_, _)
ReindexFace(s, reindex) ==
  IF s = <<>> THEN <<>>
  ELSE IF Head(s) \in DOMAIN reindex
       THEN <<reindex[Head(s)]>> \o ReindexFace(Tail(s), reindex)
       ELSE ReindexFace(Tail(s), reindex)

\* AddAdjacent with the polygon recorded for the first vertex of the face only
AddAdjacentFirstOnly(adj, face, j) ==
  IF face = <<>> THEN adj
  ELSE LET v == Head(face)
           old == IF v \in DOMAIN adj THEN adj[v] ELSE <<>>
       IN  Put(adj, v, Append(old, j))

\* adjacency with polygon index j appended to the entry of every vertex of face
RECURSIVE AddAdjacent(_, _, _)
AddAdjacent(adj, face, j) ==
  IF face = <<>> THEN adj
  ELSE LET v == Head(face)
           old == IF v \in DOMAIN adj THEN adj[v] ELSE <<>>
       IN  AddAdjacent(Put(adj, v, Append(old, j)), Tail(face), j)

\* SecondPassFace without the test for three different vertices
SecondPassFaceNoDegeneracyTest(c, s, reindex, num_original_vertices) ==
  LET reindex_s == ReindexFace(s, reindex)
      has_new == \E k \in 1..Len(reindex_s) : reindex_s[k] >= num_original_vertices
  IN  IF Len(reindex_s) < 3 THEN c
      ELSE LET new_surface ==
                 IF has_new THEN TRUE
                 ELSE ~SurfaceExists(reindex_s, c.adjacent_polygons_, c.polygons_)
           IN  IF new_surface
               THEN [c EXCEPT
                       !.polygons_ = Append(@, reindex_s),
                       !.new_triangles = Append(@, reindex_s),
                       !.adjacent_polygons_ =
                          AddAdjacent(@, reindex_s, Len(c.polygons_))]
               ELSE c

\* SecondPassFace that takes every face of three different vertices as new
SecondPassFaceWithoutSurfaceExists(c, s, reindex, num_original_vertices) ==
  LET reindex_s == ReindexFace(s, reindex)
  IN  IF Len(reindex_s) < 3 THEN c
      ELSE IF Degenerate(reindex_s) THEN c
      ELSE [c EXCEPT
              !.polygons_ = Append(@, reindex_s),
              !.new_triangles = Append(@, reindex_s),
              !.adjacent_polygons_ =
                 AddAdjacent(@, reindex_s, Len(c.polygons_))]

\* second iteration through the faces, one face: append it when it is new
SecondPassFace(c, s, reindex, num_original_vertices) ==
  LET reindex_s == ReindexFace(s, reindex)
      has_new == \E k \in 1..Len(reindex_s) : reindex_s[k] >= num_original_vertices
  IN  IF Len(reindex_s) < 3 THEN c
      ELSE IF Degenerate(reindex_s) THEN c
      ELSE LET new_surface ==
                 IF has_new THEN TRUE
                 ELSE ~SurfaceExists(reindex_s, c.adjacent_polygons_, c.polygons_)
           IN  IF new_surface
               THEN [c EXCEPT
                       !.polygons_ = Append(@, reindex_s),
                       !.new_triangles = Append(@, reindex_s),
                       !.adjacent_polygons_ =
                          AddAdjacent(@, reindex_s, Len(c.polygons_))]
               ELSE c

RECURSIVE SecondPass(_, _, _, _, _)
SecondPass(c, input_surfaces, n, reindex, num_original_vertices) ==
  IF n = 0 THEN c
  ELSE SecondPassFace(
         SecondPass(c, input_surfaces, n - 1, reindex, num_original_vertices),
         input_surfaces[n], reindex, num_original_vertices)

\* ------------------------------------------- compressAndIntegrate, flat input
\* FlatClassifyVertex without the look-up in the temporary index: every vertex
\* the main index does not know is a provisional of its own
FlatClassifyVertexNoTempCheck(S, t, i, p, stamp_in_sec) ==
  LET p_xyz == XYZ(p)
      num_original_vertices == Len(S.all_vertices_)
  IN  IF checkIfVertexUnique(S.structure_, p_xyz)
      THEN LET cloud == Append(t.temp_new_vertices, p_xyz)
           IN  [t EXCEPT
                  !.temp_new_vertices = cloud,
                  !.temp_structure = updateStructure(@, cloud),
                  !.potential_new_vertices = Append(@, i),
                  !.potential_new_vertices_check = Append(@, FALSE),
                  !.temp_reindex =
                     Append(@, num_original_vertices + Len(cloud) - 1)]
      ELSE LET result_idx == ResultIdx(S.structure_, p_xyz)
               id == At(S.active_vertices_index_, result_idx)
           IN  [t EXCEPT
                  !.reindex = Put(@, i, id),
                  !.temp_reindex = Append(@, id),
                  !.new_indices = IF id \in Range(@) THEN @ ELSE Append(@, id),
                  !.vertices_latest_time_[result_idx + 1] = stamp_in_sec]

\* FlatClassifyVertex that leaves the last-seen time of a re-observed slot alone
FlatClassifyVertexNoTimeUpdate(S, t, i, p, stamp_in_sec) ==
  LET p_xyz == XYZ(p)
      num_original_vertices == Len(S.all_vertices_)
  IN  IF checkIfVertexUnique(S.structure_, p_xyz)
      THEN IF checkIfVertexUnique(t.temp_structure, p_xyz)
           THEN LET cloud == Append(t.temp_new_vertices, p_xyz)
                IN  [t EXCEPT
                       !.temp_new_vertices = cloud,
                       !.temp_structure = updateStructure(@, cloud),
                       !.potential_new_vertices = Append(@, i),
                       !.potential_new_vertices_check = Append(@, FALSE),
                       !.temp_reindex =
                          Append(@, num_original_vertices + Len(cloud) - 1)]
           ELSE [t EXCEPT
                   !.temp_reindex =
                      Append(@, num_original_vertices
                                  + ResultIdx(t.temp_structure, p_xyz))]
      ELSE LET result_idx == ResultIdx(S.structure_, p_xyz)
               id == At(S.active_vertices_index_, result_idx)
           IN  [t EXCEPT
                  !.reindex = Put(@, i, id),
                  !.temp_reindex = Append(@, id),
                  !.new_indices = IF id \in Range(@) THEN @ ELSE Append(@, id)]

\* FlatClassifyVertex that records the active slot of a re-observation in
\* reindex, not the VertexId of the slot
FlatClassifyVertexSlotInReindex(S, t, i, p, stamp_in_sec) ==
  LET p_xyz == XYZ(p)
      num_original_vertices == Len(S.all_vertices_)
  IN  IF checkIfVertexUnique(S.structure_, p_xyz)
      THEN IF checkIfVertexUnique(t.temp_structure, p_xyz)
           THEN LET cloud == Append(t.temp_new_vertices, p_xyz)
                IN  [t EXCEPT
                       !.temp_new_vertices = cloud,
                       !.temp_structure = updateStructure(@, cloud),
                       !.potential_new_vertices = Append(@, i),
                       !.potential_new_vertices_check = Append(@, FALSE),
                       !.temp_reindex =
                          Append(@, num_original_vertices + Len(cloud) - 1)]
           ELSE [t EXCEPT
                   !.temp_reindex =
                      Append(@, num_original_vertices
                                  + ResultIdx(t.temp_structure, p_xyz))]
      ELSE LET result_idx == ResultIdx(S.structure_, p_xyz)
               id == At(S.active_vertices_index_, result_idx)
           IN  [t EXCEPT
                  !.reindex = Put(@, i, result_idx),
                  !.temp_reindex = Append(@, id),
                  !.new_indices = IF id \in Range(@) THEN @ ELSE Append(@, id),
                  !.vertices_latest_time_[result_idx + 1] = stamp_in_sec]

\* FlatClassifyVertex that pushes a re-observed VertexId to new_indices without
\* looking for it first
FlatClassifyVertexAlwaysPush(S, t, i, p, stamp_in_sec) ==
  LET p_xyz == XYZ(p)
      num_original_vertices == Len(S.all_vertices_)
  IN  IF checkIfVertexUnique(S.structure_, p_xyz)
      THEN IF checkIfVertexUnique(t.temp_structure, p_xyz)
           THEN LET cloud == Append(t.temp_new_vertices, p_xyz)
                IN  [t EXCEPT
                       !.temp_new_vertices = cloud,
                       !.temp_structure = updateStructure(@, cloud),
                       !.potential_new_vertices = Append(@, i),
                       !.potential_new_vertices_check = Append(@, FALSE),
                       !.temp_reindex =
                          Append(@, num_original_vertices + Len(cloud) - 1)]
           ELSE [t EXCEPT
                   !.temp_reindex =
                      Append(@, num_original_vertices
                                  + ResultIdx(t.temp_structure, p_xyz))]
      ELSE LET result_idx == ResultIdx(S.structure_, p_xyz)
               id == At(S.active_vertices_index_, result_idx)
           IN  [t EXCEPT
                  !.reindex = Put(@, i, id),
                  !.temp_reindex = Append(@, id),
                  !.new_indices = Append(@, id),
                  !.vertices_latest_time_[result_idx + 1] = stamp_in_sec]

\* FlatClassifyVertex that makes a later input of a provisional cell the input
\* the provisional vertex is taken from
FlatClassifyVertexLastWins(S, t, i, p, stamp_in_sec) ==
  LET p_xyz == XYZ(p)
      num_original_vertices == Len(S.all_vertices_)
  IN  IF checkIfVertexUnique(S.structure_, p_xyz)
      THEN IF checkIfVertexUnique(t.temp_structure, p_xyz)
           THEN LET cloud == Append(t.temp_new_vertices, p_xyz)
                IN  [t EXCEPT
                       !.temp_new_vertices = cloud,
                       !.temp_structure = updateStructure(@, cloud),
                       !.potential_new_vertices = Append(@, i),
                       !.potential_new_vertices_check = Append(@, FALSE),
                       !.temp_reindex =
                          Append(@, num_original_vertices + Len(cloud) - 1)]
           ELSE [t EXCEPT
                   !.potential_new_vertices[ResultIdx(t.temp_structure, p_xyz) + 1]
                      = i,
                   !.temp_reindex =
                      Append(@, num_original_vertices
                                  + ResultIdx(t.temp_structure, p_xyz))]
      ELSE LET result_idx == ResultIdx(S.structure_, p_xyz)
               id == At(S.active_vertices_index_, result_idx)
           IN  [t EXCEPT
                  !.reindex = Put(@, i, id),
                  !.temp_reindex = Append(@, id),
                  !.new_indices = IF id \in Range(@) THEN @ ELSE Append(@, id),
                  !.vertices_latest_time_[result_idx + 1] = stamp_in_sec]

\* classification of input vertex i (point p)
FlatClassifyVertex(S, t, i, p, stamp_in_sec) ==
  LET p_xyz == XYZ(p)
      num_original_vertices == Len(S.all_vertices_)
  IN  IF checkIfVertexUnique(S.structure_, p_xyz)
      THEN IF checkIfVertexUnique(t.temp_structure, p_xyz)
           THEN LET cloud == Append(t.temp_new_vertices, p_xyz)
                IN  [t EXCEPT
                       !.temp_new_vertices = cloud,
                       !.temp_structure = updateStructure(@, cloud),
                       !.potential_new_vertices = Append(@, i),
                       !.potential_new_vertices_check = Append(@, FALSE),
                       !.temp_reindex =
                          Append(@, num_original_vertices + Len(cloud) - 1)]
           ELSE [t EXCEPT
                   !.temp_reindex =
                      Append(@, num_original_vertices
                                  + ResultIdx(t.temp_structure, p_xyz))]
      ELSE LET result_idx == ResultIdx(S.structure_, p_xyz)
               id == At(S.active_vertices_index_, result_idx)
           IN  [t EXCEPT
                  !.reindex = Put(@, i, id),
                  !.temp_reindex = Append(@, id),
                  !.new_indices = IF id \in Range(@) THEN @ ELSE Append(@, id),
                  !.vertices_latest_time_[result_idx + 1] = stamp_in_sec]

RECURSIVE FlatClassify(_, _, _, _)
FlatClassify(S, input_vertices, stamp_in_sec, n) ==
  IF n = 0 THEN InitTemporaries(S)
  ELSE FlatClassifyVertex(S, FlatClassify(S, input_vertices, stamp_in_sec, n - 1),
                          n - 1, input_vertices[n], stamp_in_sec)

RECURSIVE FlatFirstPass(_, _, _, _)
FlatFirstPass(t, input_surfaces, n, num_original_vertices) ==
  IF n = 0 THEN t.potential_new_vertices_check
  ELSE FirstPassFace(FlatFirstPass(t, input_surfaces, n - 1, num_original_vertices),
                     t.temp_reindex, input_surfaces[n], num_original_vertices)

\* the input indices m that the commit of provisional i adds to remapping
FlatFanOut(t, i) ==
  {m \in 0..(Len(t.temp_reindex) - 1) :
     /\ At(t.potential_new_vertices, i) # m
     /\ At(t.temp_reindex, i) = At(t.temp_reindex, m)}

\* FlatCommitVertex that reads the position for the active set at index i of
\* the input, not at the input index of provisional i
FlatCommitVertexWrongPosition(c, t, i, input_vertices, stamp_in_sec) ==
  LET input_idx == At(t.potential_new_vertices, i)
      p == At(input_vertices, input_idx)
      cloud == Append(c.active_vertices_xyz_, XYZ(At(input_vertices, i)))
      id == Len(c.all_vertices_)
      fan == FlatFanOut(t, i)
      with_own == Insert(c.remapping, input_idx, id)
  IN  [c EXCEPT
         !.active_vertices_xyz_ = cloud,
         !.structure_ = updateStructure(@, cloud),
         !.all_vertices_ = Append(@, p),
         !.active_vertices_index_ = Append(@, id),
         !.vertices_latest_time_ = Append(@, stamp_in_sec),
         !.reindex = Put(@, input_idx, id),
         !.remapping =
            [m \in (DOMAIN with_own) \cup fan |->
               IF m \in DOMAIN with_own THEN with_own[m] ELSE id],
         !.new_indices = Append(@, id),
         !.new_vertices = Append(@, p)]

\* FlatCommitVertex that hands out the number of the active slot as VertexId
FlatCommitVertexSlotAsId(c, t, i, input_vertices, stamp_in_sec) ==
  LET input_idx == At(t.potential_new_vertices, i)
      p == At(input_vertices, input_idx)
      cloud == Append(c.active_vertices_xyz_, XYZ(p))
      id == Len(c.active_vertices_xyz_)
      fan == FlatFanOut(t, i)
      with_own == Insert(c.remapping, input_idx, id)
  IN  [c EXCEPT
         !.active_vertices_xyz_ = cloud,
         !.structure_ = updateStructure(@, cloud),
         !.all_vertices_ = Append(@, p),
         !.active_vertices_index_ = Append(@, id),
         !.vertices_latest_time_ = Append(@, stamp_in_sec),
         !.reindex = Put(@, input_idx, id),
         !.remapping =
            [m \in (DOMAIN with_own) \cup fan |->
               IF m \in DOMAIN with_own THEN with_own[m] ELSE id],
         !.new_indices = Append(@, id),
         !.new_vertices = Append(@, p)]

\* FlatCommitVertex that puts the committed vertex in front of new_vertices
FlatCommitVertexPrependingOutput(c, t, i, input_vertices, stamp_in_sec) ==
  LET input_idx == At(t.potential_new_vertices, i)
      p == At(input_vertices, input_idx)
      cloud == Append(c.active_vertices_xyz_, XYZ(p))
      id == Len(c.all_vertices_)
      fan == FlatFanOut(t, i)
      with_own == Insert(c.remapping, input_idx, id)
  IN  [c EXCEPT
         !.active_vertices_xyz_ = cloud,
         !.structure_ = updateStructure(@, cloud),
         !.all_vertices_ = Append(@, p),
         !.active_vertices_index_ = Append(@, id),
         !.vertices_latest_time_ = Append(@, stamp_in_sec),
         !.reindex = Put(@, input_idx, id),
         !.remapping =
            [m \in (DOMAIN with_own) \cup fan |->
               IF m \in DOMAIN with_own THEN with_own[m] ELSE id],
         !.new_indices = Append(@, id),
         !.new_vertices = <<p>> \o @]

\* commit of provisional i, when its check passed
FlatCommitVertex(c, t, i, input_vertices, stamp_in_sec) ==
  LET input_idx == At(t.potential_new_vertices, i)
      p == At(input_vertices, input_idx)
      cloud == Append(c.active_vertices_xyz_, XYZ(p))
      id == Len(c.all_vertices_)
      fan == FlatFanOut(t, i)
      with_own == Insert(c.remapping, input_idx, id)
  IN  [c EXCEPT
         !.active_vertices_xyz_ = cloud,
         !.structure_ = updateStructure(@, cloud),
         !.all_vertices_ = Append(@, p),
         !.active_vertices_index_ = Append(@, id),
         !.vertices_latest_time_ = Append(@, stamp_in_sec),
         !.reindex = Put(@, input_idx, id),
         !.remapping =
            [m \in (DOMAIN with_own) \cup fan |->
               IF m \in DOMAIN with_own THEN with_own[m] ELSE id],
         !.new_indices = Append(@, id),
         !.new_vertices = Append(@, p)]

RECURSIVE FlatCommit(_, _, _, _, _, _)
FlatCommit(c, t, check, n, input_vertices, stamp_in_sec) ==
  IF n = 0 THEN c
  ELSE LET before == FlatCommit(c, t, check, n - 1, input_vertices, stamp_in_sec)
       IN  IF check[n]
           THEN FlatCommitVertex(before, t, n - 1, input_vertices, stamp_in_sec)
           ELSE before

\* the outputs as the caller passes them: empty (reindex is the local map of the
\* call, kept with the outputs)
NoOutput(S) ==
  [store |-> S, new_vertices |-> <<>>, new_triangles |-> <<>>,
   new_indices |-> <<>>, remapping |-> EmptyMap, reindex |-> EmptyMap]

\* FlatCompressAndIntegrate that returns early for fewer than 3 vertices only
FlatCompressAndIntegrateWithoutSurfaceTest(S, input_vertices, input_surfaces, stamp_in_sec) ==
  IF Len(input_vertices) < 3 THEN NoOutput(S)
  ELSE
  LET num_original_vertices == Len(S.all_vertices_)
      t == FlatClassify(S, input_vertices, stamp_in_sec, Len(input_vertices))
      check == FlatFirstPass(t, input_surfaces, Len(input_surfaces),
                             num_original_vertices)
      c0 == [all_vertices_          |-> S.all_vertices_,
             active_vertices_xyz_   |-> S.active_vertices_xyz_,
             active_vertices_index_ |-> S.active_vertices_index_,
             vertices_latest_time_  |-> t.vertices_latest_time_,
             structure_             |-> S.structure_,
             reindex                |-> t.reindex,
             remapping              |-> t.reindex,
             new_indices            |-> t.new_indices,
             new_vertices           |-> <<>>]
      c == FlatCommit(c0, t, check, Len(t.potential_new_vertices),
                      input_vertices, stamp_in_sec)
      f0 == [polygons_          |-> S.polygons_,
             adjacent_polygons_ |-> S.adjacent_polygons_,
             new_triangles      |-> <<>>]
      f == SecondPass(f0, input_surfaces, Len(input_surfaces), c.reindex,
                      num_original_vertices)
  IN  [store |->
         [all_vertices_          |-> c.all_vertices_,
          polygons_              |-> f.polygons_,
          adjacent_polygons_     |-> f.adjacent_polygons_,
          active_vertices_xyz_   |-> c.active_vertices_xyz_,
          active_vertices_index_ |-> c.active_vertices_index_,
          vertices_latest_time_  |-> c.vertices_latest_time_,
          structure_             |-> c.structure_],
       new_vertices  |-> c.new_vertices,
       new_triangles |-> f.new_triangles,
       new_indices   |-> c.new_indices,
       remapping     |-> c.remapping,
       reindex       |-> c.reindex]

\* MeshCompression::compressAndIntegrate(input_vertices, input_surfaces, ...)
FlatCompressAndIntegrate(S, input_vertices, input_surfaces, stamp_in_sec) ==
  IF Len(input_vertices) < 3 \/ Len(input_surfaces) = 0 THEN NoOutput(S)
  ELSE
  LET num_original_vertices == Len(S.all_vertices_)
      t == FlatClassify(S, input_vertices, stamp_in_sec, Len(input_vertices))
      check == FlatFirstPass(t, input_surfaces, Len(input_surfaces),
                             num_original_vertices)
      c0 == [all_vertices_          |-> S.all_vertices_,
             active_vertices_xyz_   |-> S.active_vertices_xyz_,
             active_vertices_index_ |-> S.active_vertices_index_,
             vertices_latest_time_  |-> t.vertices_latest_time_,
             structure_             |-> S.structure_,
             reindex                |-> t.reindex,
             remapping              |-> t.reindex,
             new_indices            |-> t.new_indices,
             new_vertices           |-> <<>>]
      c == FlatCommit(c0, t, check, Len(t.potential_new_vertices),
                      input_vertices, stamp_in_sec)
      f0 == [polygons_          |-> S.polygons_,
             adjacent_polygons_ |-> S.adjacent_polygons_,
             new_triangles      |-> <<>>]
      f == SecondPass(f0, input_surfaces, Len(input_surfaces), c.reindex,
                      num_original_vertices)
  IN  [store |->
         [all_vertices_          |-> c.all_vertices_,
          polygons_              |-> f.polygons_,
          adjacent_polygons_     |-> f.adjacent_polygons_,
          active_vertices_xyz_   |-> c.active_vertices_xyz_,
          active_vertices_index_ |-> c.active_vertices_index_,
          vertices_latest_time_  |-> c.vertices_latest_time_,
          structure_             |-> c.structure_],
       new_vertices  |-> c.new_vertices,
       new_triangles |-> f.new_triangles,
       new_indices   |-> c.new_indices,
       remapping     |-> c.remapping,
       reindex       |-> c.reindex]

\* ------------------------------- compressAndIntegrate, spatial index failure
\* the flat call has no handler around the index calls and keeps no snapshot: a
\* failure of the index leaves the members as the statements before it set them

\* the store when a query of the index (lines 77, 80) or the insert into the
\* temporary index (line 83) fails for input j: the inputs before j are
\* classified
FlatAbandonedAtQuery(S, input_vertices, stamp_in_sec, j) ==
  [S EXCEPT !.vertices_latest_time_ =
              FlatClassify(S, input_vertices, stamp_in_sec, j).vertices_latest_time_]

\* the provisional slots the first iteration through the faces keeps
FlatKept(S, input_vertices, input_surfaces, stamp_in_sec) ==
  LET t == FlatClassify(S, input_vertices, stamp_in_sec, Len(input_vertices))
      check == FlatFirstPass(t, input_surfaces, Len(input_surfaces),
                             Len(S.all_vertices_))
  IN  {i \in 0..(Len(check) - 1) : check[i + 1]}

\* the store when updateStructure (line 139) fails in the commit of provisional
\* i: the provisionals before i are committed and the position of i is pushed
FlatAbandonedAtInsert(S, input_vertices, input_surfaces, stamp_in_sec, i) ==
  LET t == FlatClassify(S, input_vertices, stamp_in_sec, Len(input_vertices))
      check == FlatFirstPass(t, input_surfaces, Len(input_surfaces),
                             Len(S.all_vertices_))
      c0 == [all_vertices_          |-> S.all_vertices_,
             active_vertices_xyz_   |-> S.active_vertices_xyz_,
             active_vertices_index_ |-> S.active_vertices_index_,
             vertices_latest_time_  |-> t.vertices_latest_time_,
             structure_             |-> S.structure_,
             reindex                |-> t.reindex,
             remapping              |-> t.reindex,
             new_indices            |-> t.new_indices,
             new_vertices           |-> <<>>]
      c == FlatCommit(c0, t, check, i, input_vertices, stamp_in_sec)
      p == At(input_vertices, At(t.potential_new_vertices, i))
  IN  [all_vertices_          |-> c.all_vertices_,
       polygons_              |-> S.polygons_,
       adjacent_polygons_     |-> S.adjacent_polygons_,
       active_vertices_xyz_   |-> Append(c.active_vertices_xyz_, XYZ(p)),
       active_vertices_index_ |-> c.active_vertices_index_,
       vertices_latest_time_  |-> c.vertices_latest_time_,
       structure_             |-> c.structure_]

\* ---------------------------------------------------------- pruneStoredMesh
\* the slots that survive: last-seen time after the cutoff
RECURSIVE PruneLoop(_, _, _)
PruneLoop(S, earliest_time_sec, n) ==
  IF n = 0
  THEN [temp_active_vertices |-> <<>>, temp_vertices_time |-> <<>>,
        temp_vertices_index |-> <<>>, temp_adjacent_polygons |-> EmptyMap,
        adjacent_polygons_ |-> S.adjacent_polygons_]
  ELSE LET r == PruneLoop(S, earliest_time_sec, n - 1)
           id == S.active_vertices_index_[n]
           \* operator[] on adjacent_polygons_ creates a missing entry, empty
           adj == Insert(r.adjacent_polygons_, id, <<>>)
       IN  IF S.vertices_latest_time_[n] > earliest_time_sec
           THEN [temp_active_vertices |->
                    Append(r.temp_active_vertices, S.active_vertices_xyz_[n]),
                 temp_vertices_time |->
                    Append(r.temp_vertices_time, S.vertices_latest_time_[n]),
                 temp_vertices_index |-> Append(r.temp_vertices_index, id),
                 temp_adjacent_polygons |->
                    Put(r.temp_adjacent_polygons, id, adj[id]),
                 adjacent_polygons_ |-> adj]
           ELSE r

\* PruneStoredMesh that also drops the pruned vertices from all_vertices_
PruneStoredMeshDroppingVertices(S, earliest_time_sec) ==
  IF Len(S.active_vertices_xyz_) = 0 THEN S
  ELSE LET r == PruneLoop(S, earliest_time_sec, Len(S.vertices_latest_time_))
       IN  IF Len(r.temp_active_vertices) < Len(S.active_vertices_xyz_)
           THEN [S EXCEPT
                   !.all_vertices_ =
                      [k \in 1..Len(r.temp_vertices_index) |->
                         At(S.all_vertices_, r.temp_vertices_index[k])],
                   !.active_vertices_xyz_ = r.temp_active_vertices,
                   !.vertices_latest_time_ = r.temp_vertices_time,
                   !.active_vertices_index_ = r.temp_vertices_index,
                   !.adjacent_polygons_ = r.temp_adjacent_polygons,
                   !.structure_ = reInitializeStructure(r.temp_active_vertices)]
           ELSE [S EXCEPT !.adjacent_polygons_ = r.adjacent_polygons_]

\* PruneStoredMesh that keeps the times of the first slots, not of the kept ones
PruneStoredMeshKeepingFirstTimes(S, earliest_time_sec) ==
  IF Len(S.active_vertices_xyz_) = 0 THEN S
  ELSE LET r == PruneLoop(S, earliest_time_sec, Len(S.vertices_latest_time_))
       IN  IF Len(r.temp_active_vertices) < Len(S.active_vertices_xyz_)
           THEN [S EXCEPT
                   !.active_vertices_xyz_ = r.temp_active_vertices,
                   !.vertices_latest_time_ =
                      SubSeq(S.vertices_latest_time_, 1, Len(r.temp_vertices_time)),
                   !.active_vertices_index_ = r.temp_vertices_index,
                   !.adjacent_polygons_ = r.temp_adjacent_polygons,
                   !.structure_ = reInitializeStructure(r.temp_active_vertices)]
           ELSE [S EXCEPT !.adjacent_polygons_ = r.adjacent_polygons_]

\* PruneStoredMesh that does not swap vertices_latest_time_
PruneStoredMeshKeepingTimes(S, earliest_time_sec) ==
  IF Len(S.active_vertices_xyz_) = 0 THEN S
  ELSE LET r == PruneLoop(S, earliest_time_sec, Len(S.vertices_latest_time_))
       IN  IF Len(r.temp_active_vertices) < Len(S.active_vertices_xyz_)
           THEN [S EXCEPT
                   !.active_vertices_xyz_ = r.temp_active_vertices,
                   !.active_vertices_index_ = r.temp_vertices_index,
                   !.adjacent_polygons_ = r.temp_adjacent_polygons,
                   !.structure_ = reInitializeStructure(r.temp_active_vertices)]
           ELSE [S EXCEPT !.adjacent_polygons_ = r.adjacent_polygons_]

\* MeshCompression::pruneStoredMesh(earliest_time_sec)
PruneStoredMesh(S, earliest_time_sec) ==
  IF Len(S.active_vertices_xyz_) = 0 THEN S
  ELSE LET r == PruneLoop(S, earliest_time_sec, Len(S.vertices_latest_time_))
       IN  IF Len(r.temp_active_vertices) < Len(S.active_vertices_xyz_)
           THEN [S EXCEPT
                   !.active_vertices_xyz_ = r.temp_active_vertices,
                   !.vertices_latest_time_ = r.temp_vertices_time,
                   !.active_vertices_index_ = r.temp_vertices_index,
                   !.adjacent_polygons_ = r.temp_adjacent_polygons,
                   !.structure_ = reInitializeStructure(r.temp_active_vertices)]
           ELSE [S EXCEPT !.adjacent_polygons_ = r.adjacent_polygons_]

\* ------------------------------------------ compressAndIntegrate, block input
\* a mesh is a sequence of blocks [index, points]; points holds the vertices
\* ExtractPoint yields for the block, three per face

\* classification of vertex i of a block (point p, running number count)
BlockClassifyVertex(S, t, block_index, i, p, stamp_in_sec) ==
  LET p_xyz == XYZ(p)
      count == Len(t.all_parsed_points)
      num_original_vertices == Len(S.all_vertices_)
      t1 == [t EXCEPT
               !.count_to_block = Append(@, <<block_index, i>>),
               !.all_parsed_points = Append(@, p)]
  IN  IF checkIfVertexUnique(S.structure_, p_xyz)
      THEN IF checkIfVertexUnique(t.temp_structure, p_xyz)
           THEN LET cloud == Append(t.temp_new_vertices, p_xyz)
                IN  [t1 EXCEPT
                       !.temp_new_vertices = cloud,
                       !.temp_structure = updateStructure(@, cloud),
                       !.potential_new_vertices = Append(@, count),
                       !.potential_new_vertices_check = Append(@, FALSE),
                       !.temp_reindex =
                          Append(@, num_original_vertices + Len(cloud) - 1),
                       !.converged_vertices = Insert(@, count, <<>>)]
           ELSE LET result_idx == ResultIdx(t.temp_structure, p_xyz)
                    first == At(t.potential_new_vertices, result_idx)
                IN  [t1 EXCEPT
                       !.temp_reindex = Append(@, num_original_vertices + result_idx),
                       !.converged_vertices[first] = Append(@, count)]
      ELSE LET result_idx == ResultIdx(S.structure_, p_xyz)
               id == At(S.active_vertices_index_, result_idx)
           IN  [t1 EXCEPT
                  !.temp_reindex = Append(@, id),
                  !.new_indices = IF id \in Range(@) THEN @ ELSE Append(@, id),
                  !.vertices_latest_time_[result_idx + 1] = stamp_in_sec]

\* every third vertex of a block closes a face: record it and run the check of
\* the provisional vertices on it
BlockFace(S, t, i) ==
  LET count == Len(t.all_parsed_points) - 1
      orig_s == <<count - 2, count - 1, count>>
  IN  IF i % 3 = 2
      THEN [t EXCEPT
              !.input_surfaces = Append(@, orig_s),
              !.potential_new_vertices_check =
                 FirstPassFace(@, t.temp_reindex, orig_s, Len(S.all_vertices_))]
      ELSE t

RECURSIVE BlockVertices(_, _, _, _, _)
BlockVertices(S, t, mesh_block, n, stamp_in_sec) ==
  IF n = 0 THEN t
  ELSE BlockFace(S,
         BlockClassifyVertex(S, BlockVertices(S, t, mesh_block, n - 1, stamp_in_sec),
                             mesh_block.index, n - 1, mesh_block.points[n],
                             stamp_in_sec),
         n - 1)

RECURSIVE BlockClassify(_, _, _, _)
BlockClassify(S, mesh, n, stamp_in_sec) ==
  IF n = 0
  THEN [reindex                      |-> EmptyMap,
        temp_reindex                 |-> <<>>,
        potential_new_vertices       |-> <<>>,
        potential_new_vertices_check |-> <<>>,
        temp_new_vertices            |-> <<>>,
        temp_structure               |-> EmptyMap,
        new_indices                  |-> <<>>,
        vertices_latest_time_        |-> S.vertices_latest_time_,
        input_surfaces               |-> <<>>,
        count_to_block               |-> <<>>,
        all_parsed_points            |-> <<>>,
        converged_vertices           |-> EmptyMap,
        remapping                    |-> EmptyMap]
  ELSE LET before == BlockClassify(S, mesh, n - 1, stamp_in_sec)
           opened == [before EXCEPT
                        !.remapping = Insert(@, mesh[n].index, EmptyMap)]
       IN  BlockVertices(S, opened, mesh[n], Len(mesh[n].points), stamp_in_sec)

\* remapping with (block, index in block) of input m mapped to id, unless mapped
BlockRemap(remapping, count_to_block, m, id) ==
  LET where == At(count_to_block, m)
  IN  [remapping EXCEPT ![where[1]] = Insert(@, where[2], id)]

RECURSIVE BlockConverged(_, _, _, _)
BlockConverged(c, count_to_block, ms, id) ==
  IF ms = <<>> THEN c
  ELSE BlockConverged(
         [c EXCEPT !.reindex = Put(@, Head(ms), id),
                   !.remapping = BlockRemap(@, count_to_block, Head(ms), id)],
         count_to_block, Tail(ms), id)

\* commit of provisional i, when its check passed
BlockCommitVertex(c, t, i, stamp_in_sec) ==
  LET input_idx == At(t.potential_new_vertices, i)
      p == At(t.all_parsed_points, input_idx)
      cloud == Append(c.active_vertices_xyz_, XYZ(p))
      id == Len(c.all_vertices_)
      own == [c EXCEPT
                !.active_vertices_xyz_ = cloud,
                !.structure_ = updateStructure(@, cloud),
                !.all_vertices_ = Append(@, p),
                !.active_vertices_index_ = Append(@, id),
                !.vertices_latest_time_ = Append(@, stamp_in_sec),
                !.reindex = Put(@, input_idx, id),
                !.remapping = BlockRemap(@, t.count_to_block, input_idx, id)]
      fanned == BlockConverged(own, t.count_to_block,
                               t.converged_vertices[input_idx], id)
  IN  [fanned EXCEPT
         !.new_indices = Append(@, id),
         !.new_vertices = Append(@, p)]

RECURSIVE BlockCommit(_, _, _, _)
BlockCommit(c, t, n, stamp_in_sec) ==
  IF n = 0 THEN c
  ELSE LET before == BlockCommit(c, t, n - 1, stamp_in_sec)
       IN  IF t.potential_new_vertices_check[n]
           THEN BlockCommitVertex(before, t, n - 1, stamp_in_sec)
           ELSE before

\* MeshCompression::compressAndIntegrate(mesh, ...)
BlockCompressAndIntegrate(S, mesh, stamp_in_sec) ==
  LET num_original_vertices == Len(S.all_vertices_)
      t == BlockClassify(S, mesh, Len(mesh), stamp_in_sec)
      c0 == [all_vertices_          |-> S.all_vertices_,
             active_vertices_xyz_   |-> S.active_vertices_xyz_,
             active_vertices_index_ |-> S.active_vertices_index_,
             vertices_latest_time_  |-> t.vertices_latest_time_,
             structure_             |-> S.structure_,
             reindex                |-> t.reindex,
             remapping              |-> t.remapping,
             new_indices            |-> t.new_indices,
             new_vertices           |-> <<>>]
      c == BlockCommit(c0, t, Len(t.potential_new_vertices), stamp_in_sec)
      f0 == [polygons_          |-> S.polygons_,
             adjacent_polygons_ |-> S.adjacent_polygons_,
             new_triangles      |-> <<>>]
      f == SecondPass(f0, t.input_surfaces, Len(t.input_surfaces), c.reindex,
                      num_original_vertices)
  IN  [store |->
         [all_vertices_          |-> c.all_vertices_,
          polygons_              |-> f.polygons_,
          adjacent_polygons_     |-> f.adjacent_polygons_,
          active_vertices_xyz_   |-> c.active_vertices_xyz_,
          active_vertices_index_ |-> c.active_vertices_index_,
          vertices_latest_time_  |-> c.vertices_latest_time_,
          structure_             |-> c.structure_],
       new_vertices  |-> c.new_vertices,
       new_triangles |-> f.new_triangles,
       new_indices   |-> c.new_indices,
       remapping     |-> c.remapping,
       reindex       |-> c.reindex]

\* ------------------------------------------------------------------ inputs
\* the input positions: the corner of every cell, and a second position in
\* the first TwoPointCells cells
Positions ==
  {c * Resolution : c \in 0..(NumCells - 1)}
    \cup {c * Resolution + 1 : c \in 0..(TwoPointCells - 1)}

\* a coloured input vertex (pcl::PointXYZRGBA)
Point(x) == [x |-> x, rgba |-> x % Resolution]

Points == {Point(x) : x \in Positions}

Stamps == 1..MaxStamp

Cutoffs == 0..MaxStamp

\* the vertex lists a batch is drawn from: cells named in non-decreasing
\* order, at most MaxRepeats vertices in a cell that an earlier vertex is in
CellOrdered(vs) ==
  \A k \in 1..(Len(vs) - 1) : Cell(XYZ(vs[k])) <= Cell(XYZ(vs[k + 1]))

Repeats(vs) == Len(vs) - Cardinality({Cell(XYZ(vs[k])) : k \in 1..Len(vs)})

VertexListsOf(n) ==
  {vs \in [1..n -> Points] : CellOrdered(vs) /\ Repeats(vs) <= MaxRepeats}

\* vertex lists of a flat batch
VertexLists == UNION {VertexListsOf(n) : n \in 3..MaxIn}

\* faces over the input indices 0 .. n-1
Faces(n) ==
  {f \in {<<0, 1, 2>>, <<2, 1, 0>>, <<1, 2, 3>>} : \A k \in 1..3 : f[k] < n}

\* face lists of a flat batch: up to MaxFaces faces, <<0, 1, 2>> before the last
SurfaceLists(n) ==
  {[k \in 1..m |-> IF k < m THEN <<0, 1, 2>> ELSE f] :
     m \in 1..MaxFaces, f \in Faces(n)}

\* a flat batch with a face that uses neither of its first two vertices: two
\* vertices in the first cell, then the corner of each following cell and of
\* the cell after the last, with the face (2, 3, 4)
WideVertexLists ==
  {[k \in 1..(NumCells + 2) |->
      IF k = 1 THEN Point(a)
      ELSE IF k = 2 THEN Point(b)
      ELSE Point((k - 2) * Resolution)] :
     a \in {x \in Positions : Cell(x) = 0}, b \in {x \in Positions : Cell(x) = 0}}

\* the flat batches the claims about one call are checked with: the batches of
\* FlatCall and the wide ones
FlatBatches ==
  UNION {{<<vs, fs>> : fs \in SurfaceLists(Len(vs))} : vs \in VertexLists}
    \cup {<<vs, <<(<<2, 3, 4>>)>>>> : vs \in WideVertexLists}

\* the flat batches that make the call return at once: fewer than 3 vertices,
\* with or without a face, and the vertex lists of FlatCall without a face
ShortVertexLists == UNION {[1..n -> Points] : n \in 0..2}

EarlyExitBatches ==
  {<<vs, fs>> : vs \in ShortVertexLists, fs \in {<<>>, <<(<<0, 1, 2>>)>>}}
    \cup {<<vs, <<>>>> : vs \in VertexLists}

BlockIndices == 0..(MaxBlocks - 1)

\* meshes of a block batch: blocks of one face each
Meshes ==
  UNION {[1..k -> [index : BlockIndices, points : VertexListsOf(3)]] :
           k \in 1..MaxBlocks}

\* -------------------------------------------------------- history variables
\* max_stamp_seen[s]: the largest stamp of a batch that committed or re-observed
\* active slot s; last_stamp_seen[s]: the stamp of the latest such batch
Max(a, b) == IF a >= b THEN a ELSE b

\* the positions a batch classifies: none when the call returns at once
FlatObserved(input_vertices, input_surfaces) ==
  IF Len(input_vertices) < 3 \/ Len(input_surfaces) = 0 THEN {}
  ELSE {XYZ(p) : p \in Range(input_vertices)}

BlockObserved(mesh) ==
  UNION {{XYZ(p) : p \in Range(mesh[b].points)} : b \in 1..Len(mesh)}

\* a slot of the store is observed when an input position lies in its cell;
\* the slots past the old ones were committed by the batch
SeenAfterBatch(S, after, seen, observed, stamp_in_sec, latest) ==
  [s \in 1..Len(after.active_vertices_xyz_) |->
     IF s > Len(S.active_vertices_xyz_) THEN stamp_in_sec
     ELSE IF Cell(S.active_vertices_xyz_[s]) \in {Cell(x) : x \in observed}
          THEN IF latest THEN stamp_in_sec ELSE Max(seen[s], stamp_in_sec)
          ELSE seen[s]]

\* after a prune: the entries of the slots that are still there
SeenAfterPrune(S, after, seen) ==
  LET kept == SelectSeq([s \in 1..Len(seen) |-> s],
                        LAMBDA s : S.active_vertices_index_[s]
                                     \in Range(after.active_vertices_index_))
  IN  [k \in 1..Len(kept) |-> seen[kept[k]]]

\* --------------------------------------------------------------- the system
Init ==
  /\ all_vertices_ = <<>>
  /\ polygons_ = <<>>
  /\ adjacent_polygons_ = EmptyMap
  /\ active_vertices_xyz_ = <<>>
  /\ active_vertices_index_ = <<>>
  /\ vertices_latest_time_ = <<>>
  /\ structure_ = EmptyMap
  /\ max_stamp_seen = <<>>
  /\ last_stamp_seen = <<>>
  /\ active_vertices_ = <<>>
  /\ octree_ = EmptyMap
  /\ crashed = FALSE
  /\ map_data_ = <<>>
  /\ map_octree_ = EmptyMap

WithinBounds(S) ==
  /\ Len(S.all_vertices_) <= MaxAll
  /\ Len(S.polygons_) <= MaxPolys

SetStore(S) ==
  /\ all_vertices_' = S.all_vertices_
  /\ polygons_' = S.polygons_
  /\ adjacent_polygons_' = S.adjacent_polygons_
  /\ active_vertices_xyz_' = S.active_vertices_xyz_
  /\ active_vertices_index_' = S.active_vertices_index_
  /\ vertices_latest_time_' = S.vertices_latest_time_
  /\ structure_' = S.structure_
  /\ UNCHANGED <<active_vertices_, octree_, crashed, map_data_, map_octree_>>

FlatCall ==
  \E input_vertices \in VertexLists, stamp_in_sec \in Stamps :
    \E input_surfaces \in SurfaceLists(Len(input_vertices)) :
      \E r \in {FlatCompressAndIntegrate(Store, input_vertices, input_surfaces,
                                        stamp_in_sec)} :
          /\ WithinBounds(r.store)
          /\ SetStore(r.store)
          /\ max_stamp_seen' =
               SeenAfterBatch(Store, r.store, max_stamp_seen,
                              FlatObserved(input_vertices, input_surfaces),
                              stamp_in_sec, FALSE)
          /\ last_stamp_seen' =
               SeenAfterBatch(Store, r.store, last_stamp_seen,
                              FlatObserved(input_vertices, input_surfaces),
                              stamp_in_sec, TRUE)

BlockCall ==
  \E mesh \in Meshes, stamp_in_sec \in Stamps :
      \E r \in {BlockCompressAndIntegrate(Store, mesh, stamp_in_sec)} :
          /\ WithinBounds(r.store)
          /\ SetStore(r.store)
          /\ max_stamp_seen' =
               SeenAfterBatch(Store, r.store, max_stamp_seen,
                              BlockObserved(mesh), stamp_in_sec, FALSE)
          /\ last_stamp_seen' =
               SeenAfterBatch(Store, r.store, last_stamp_seen,
                              BlockObserved(mesh), stamp_in_sec, TRUE)

PruneCall ==
  \E earliest_time_sec \in Cutoffs :
      \E after \in {PruneStoredMesh(Store, earliest_time_sec)} :
          /\ SetStore(after)
          /\ max_stamp_seen' = SeenAfterPrune(Store, after, max_stamp_seen)
          /\ last_stamp_seen' = SeenAfterPrune(Store, after, last_stamp_seen)

Next == FlatCall \/ BlockCall \/ PruneCall

Spec == Init /\ [][Next]_vars

\* ================== kimera_pgmo::OctreeCompression (the octree compressor)
\* ------------------------------------------------------------------ bounds
\* cells 0 .. LegacyNumCells-1 hold the input positions of the octree compressor
LegacyNumCells == 4
\* its store is explored while all_vertices_ and polygons_ stay this short
LegacyMaxAll == 5
LegacyMaxPolys == 3

\* ------------------------------- pcl::octree::OctreePointCloudSearch (PCL)
\* an octree maps every occupied voxel to the indices, in its input cloud, of
\* the points it holds; voxels are the cells of the grid
Voxel(p) == Cell(p.x)

\* addPointFromCloud(point_idx, nullptr): the leaf of the point's voxel gets the
\* index, the bounding box grows to hold the point
addPointFromCloud(octree, cloud, point_idx) ==
  LET v == Voxel(At(cloud, point_idx))
      leaf == IF v \in DOMAIN octree THEN octree[v] ELSE {}
  IN  Put(octree, v, leaf \cup {point_idx})

\* addPointToCloud(p, cloud): p is appended to the cloud and added to the octree
addPointToCloud(octree, cloud, p) ==
  [cloud  |-> Append(cloud, p),
   octree |-> addPointFromCloud(octree, Append(cloud, p), Len(cloud))]

RECURSIVE AddPointsUpTo(_, _)
AddPointsUpTo(cloud, n) ==
  IF n = 0 THEN EmptyMap
  ELSE addPointFromCloud(AddPointsUpTo(cloud, n - 1), cloud, n - 1)

\* a new octree with addPointsFromInputCloud()
addPointsFromInputCloud(cloud) == AddPointsUpTo(cloud, Len(cloud))

\* is_in_box: p lies in the box of getBoundingBox, which spans the voxels that
\* were occupied
InBoundingBox(octree, p) ==
  \E lo \in DOMAIN octree, hi \in DOMAIN octree : lo <= Voxel(p) /\ Voxel(p) <= hi

isVoxelOccupiedAtPoint(octree, p) == Voxel(p) \in DOMAIN octree

Distance(p, q) == IF p.x >= q.x THEN p.x - q.x ELSE q.x - p.x

\* approxNearestSearch(p, result_idx, unused) when the voxel of p is occupied:
\* the index of the point of that voxel nearest to p
approxNearestSearch(octree, cloud, p) ==
  CHOOSE idx \in octree[Voxel(p)] :
    \A other \in octree[Voxel(p)] :
       \/ Distance(At(cloud, idx), p) < Distance(At(cloud, other), p)
       \/ /\ Distance(At(cloud, idx), p) = Distance(At(cloud, other), p)
          /\ idx <= other

\* ------------------------------------------------------------------- store
LegacyStore ==
  [all_vertices_          |-> all_vertices_,
   polygons_              |-> polygons_,
   adjacent_polygons_     |-> adjacent_polygons_,
   active_vertices_       |-> active_vertices_,
   active_vertices_index_ |-> active_vertices_index_,
   vertices_latest_time_  |-> vertices_latest_time_,
   octree_                |-> octree_]

\* ------------------------------------ OctreeCompression::compressAndIntegrate
\* the temporary copies before the first input vertex is read
LegacyTemporaries(S) ==
  [temp_active_vertices        |-> S.active_vertices_,
   temp_all_vertices           |-> S.all_vertices_,
   temp_octree                 |-> S.octree_,
   temp_active_vertices_index  |-> S.active_vertices_index_,
   temp_new_indices            |-> <<>>,
   temp_have_adjacent_polygons |-> EmptyMap,
   remapping                   |-> EmptyMap]

\* first pass, input vertex i
LegacyClassifyVertex(S, t, i, p) ==
  IF ~InBoundingBox(t.temp_octree, p) \/ ~isVoxelOccupiedAtPoint(t.temp_octree, p)
  THEN LET cloud == Append(t.temp_active_vertices, p)
           id == Len(t.temp_all_vertices)
       IN  [temp_active_vertices |-> cloud,
            temp_all_vertices |-> Append(t.temp_all_vertices, p),
            temp_octree |-> addPointFromCloud(t.temp_octree, cloud, Len(cloud) - 1),
            temp_active_vertices_index |-> Append(t.temp_active_vertices_index, id),
            temp_new_indices |-> Append(t.temp_new_indices, id),
            temp_have_adjacent_polygons |->
               Put(t.temp_have_adjacent_polygons, id, FALSE),
            remapping |-> Put(t.remapping, i, id)]
  ELSE LET result_idx ==
             approxNearestSearch(t.temp_octree, t.temp_active_vertices, p)
           id == At(t.temp_active_vertices_index, result_idx)
       IN  IF /\ result_idx < Len(S.active_vertices_)
              /\ id \notin Range(t.temp_new_indices)
           THEN [t EXCEPT
                   !.remapping = Put(t.remapping, i, id),
                   !.temp_new_indices = Append(t.temp_new_indices, id),
                   !.temp_have_adjacent_polygons =
                      Put(t.temp_have_adjacent_polygons, id, TRUE)]
           ELSE [t EXCEPT !.remapping = Put(t.remapping, i, id)]

RECURSIVE LegacyClassify(_, _, _)
LegacyClassify(S, input_vertices, n) ==
  IF n = 0 THEN LegacyTemporaries(S)
  ELSE LegacyClassifyVertex(S, LegacyClassify(S, input_vertices, n - 1), n - 1,
                            input_vertices[n])

\* std::map operator[] read: a missing key reads as the default value
MapRead(f, k, default) == IF k \in DOMAIN f THEN f[k] ELSE default

RECURSIVE MarkAdjacent(_, _)
MarkAdjacent(have, face) ==
  IF face = <<>> THEN have
  ELSE MarkAdjacent(Put(have, Head(face), TRUE), Tail(face))

\* check polygons: the remapped polygon is kept when it is not degenerate and
\* has a provisional vertex or is not a stored surface
LegacyCheckPolygon(S, c, polygon, remapping) ==
  LET new_polygon == [k \in 1..Len(polygon) |-> MapRead(remapping, polygon[k], 0)]
      has_new == \E k \in 1..Len(polygon) : new_polygon[k] >= Len(S.all_vertices_)
      new_surface ==
        has_new \/ ~SurfaceExists(new_polygon, S.adjacent_polygons_, S.polygons_)
  IN  IF Degenerate(new_polygon) THEN c
      ELSE IF new_surface
           THEN [temp_new_triangles |-> Append(c.temp_new_triangles, new_polygon),
                 temp_have_adjacent_polygons |->
                    MarkAdjacent(c.temp_have_adjacent_polygons, new_polygon)]
           ELSE c

RECURSIVE LegacyCheckPolygons(_, _, _, _)
LegacyCheckPolygons(S, t, input_surfaces, n) ==
  IF n = 0
  THEN [temp_new_triangles |-> <<>>,
        temp_have_adjacent_polygons |-> t.temp_have_adjacent_polygons]
  ELSE LegacyCheckPolygon(S, LegacyCheckPolygons(S, t, input_surfaces, n - 1),
                          input_surfaces[n], t.remapping)

\* second pass, one entry idx of temp_new_indices that belongs to a surface.
\* vertices_latest_time_[idx] is written with the VertexId as the index: past
\* the end of the vector the write is outside it (out_of_bounds)
LegacyCommitIndex(S, c, t, idx, stamp_in_sec) ==
  IF idx >= Len(S.all_vertices_)
  THEN LET p == At(t.temp_all_vertices, idx)
           cloud == Append(c.store.active_vertices_, p)
           id == Len(c.store.all_vertices_)
       IN  [c EXCEPT
              !.new_vertices = Append(c.new_vertices, p),
              !.store.active_vertices_ = cloud,
              !.store.octree_ =
                 addPointFromCloud(c.store.octree_, cloud, Len(cloud) - 1),
              !.store.all_vertices_ = Append(c.store.all_vertices_, p),
              !.second_remapping = Put(c.second_remapping, idx, id),
              !.store.active_vertices_index_ =
                 Append(c.store.active_vertices_index_, id),
              !.new_indices = Append(c.new_indices, id),
              !.store.vertices_latest_time_ =
                 Append(c.store.vertices_latest_time_, stamp_in_sec),
              !.store.adjacent_polygons_ =
                 Put(c.store.adjacent_polygons_, id, <<>>)]
  ELSE IF idx < Len(c.store.vertices_latest_time_)
       THEN [c EXCEPT
               !.second_remapping = Put(c.second_remapping, idx, idx),
               !.new_indices = Append(c.new_indices, idx),
               !.store.vertices_latest_time_ =
                  [c.store.vertices_latest_time_ EXCEPT ![idx + 1] = stamp_in_sec]]
       ELSE [c EXCEPT
               !.second_remapping = Put(c.second_remapping, idx, idx),
               !.new_indices = Append(c.new_indices, idx),
               !.out_of_bounds = TRUE]

RECURSIVE LegacyCommit(_, _, _, _, _)
LegacyCommit(S, t, have, n, stamp_in_sec) ==
  IF n = 0
  THEN [store |-> S, new_vertices |-> <<>>, new_indices |-> <<>>,
        second_remapping |-> EmptyMap, out_of_bounds |-> FALSE]
  ELSE LET c == LegacyCommit(S, t, have, n - 1, stamp_in_sec)
           idx == t.temp_new_indices[n]
       IN  IF have[idx] THEN LegacyCommitIndex(S, c, t, idx, stamp_in_sec)
           ELSE c

\* reindex the new surfaces with the second remapping and store them
RECURSIVE LegacyReindex(_, _, _, _)
LegacyReindex(c, temp_new_triangles, n, second_remapping) ==
  IF n = 0 THEN [store |-> c.store, new_triangles |-> <<>>]
  ELSE LET r == LegacyReindex(c, temp_new_triangles, n - 1, second_remapping)
           tri == temp_new_triangles[n]
           reindexed_t == [k \in 1..Len(tri) |-> MapRead(second_remapping, tri[k], 0)]
       IN  [store |->
              [r.store EXCEPT
                 !.polygons_ = Append(r.store.polygons_, reindexed_t),
                 !.adjacent_polygons_ =
                    AddAdjacent(r.store.adjacent_polygons_, reindexed_t,
                                Len(r.store.polygons_))],
            new_triangles |-> Append(r.new_triangles, reindexed_t)]

LegacyNoOutput(S) ==
  [store |-> S, new_vertices |-> <<>>, new_triangles |-> <<>>,
   new_indices |-> <<>>, out_of_bounds |-> FALSE]

\* OctreeCompression::compressAndIntegrate(input_vertices, input_surfaces,
\*   new_vertices, new_triangles, new_indices, stamp_in_sec), the outputs empty
\* at the call; out_of_bounds: a write outside vertices_latest_time_ was made
LegacyCompressAndIntegrate(S, input_vertices, input_surfaces, stamp_in_sec) ==
  IF Len(input_vertices) < 3 \/ Len(input_surfaces) = 0 THEN LegacyNoOutput(S)
  ELSE
    LET t == LegacyClassify(S, input_vertices, Len(input_vertices))
    IN  IF Len(t.temp_new_indices) < 3 THEN LegacyNoOutput(S)
        ELSE
          LET f == LegacyCheckPolygons(S, t, input_surfaces, Len(input_surfaces))
          IN  IF Len(f.temp_new_triangles) = 0 THEN LegacyNoOutput(S)
              ELSE
                LET c == LegacyCommit(S, t, f.temp_have_adjacent_polygons,
                                      Len(t.temp_new_indices), stamp_in_sec)
                    r == LegacyReindex(c, f.temp_new_triangles,
                                       Len(f.temp_new_triangles),
                                       c.second_remapping)
                IN  IF Len(c.new_indices) = 0
                    THEN [store |-> c.store, new_vertices |-> c.new_vertices,
                          new_triangles |-> <<>>, new_indices |-> c.new_indices,
                          out_of_bounds |-> c.out_of_bounds]
                    ELSE [store |-> r.store, new_vertices |-> c.new_vertices,
                          new_triangles |-> r.new_triangles,
                          new_indices |-> c.new_indices,
                          out_of_bounds |-> c.out_of_bounds]

\* ----------------------------------------- OctreeCompression::pruneStoredMesh
\* what a read outside a vector can yield: any index, here the VertexId 0 or
\* a number no vertex has
GarbageIds == {0, LegacyMaxAll}

\* the slots whose iteration reads temp_vertices_index[i] past its end: the
\* kept slots after a dropped one
LegacyReadsOutside(S, earliest_time_sec) ==
  {i \in 0..(Len(S.vertices_latest_time_) - 1) :
     /\ At(S.vertices_latest_time_, i) > earliest_time_sec
     /\ \E d \in 0..(i - 1) : At(S.vertices_latest_time_, d) <= earliest_time_sec}

\* the loop over the first n slots; garbage[i] is what the read outside the
\* vector yields in iteration i
RECURSIVE LegacyPruneLoop(_, _, _, _)
LegacyPruneLoop(S, earliest_time_sec, n, garbage) ==
  IF n = 0
  THEN [temp_active_vertices |-> <<>>, temp_vertices_time |-> <<>>,
        temp_vertices_index |-> <<>>, temp_adjacent_polygons |-> EmptyMap,
        adjacent_polygons_ |-> S.adjacent_polygons_]
  ELSE LET r == LegacyPruneLoop(S, earliest_time_sec, n - 1, garbage)
           i == n - 1
           index == Append(r.temp_vertices_index, At(S.active_vertices_index_, i))
           \* temp_vertices_index[i]
           key == IF i < Len(index) THEN At(index, i) ELSE garbage[i]
           adj == Insert(r.adjacent_polygons_, key, <<>>)
       IN  IF At(S.vertices_latest_time_, i) > earliest_time_sec
           THEN [temp_active_vertices |->
                    Append(r.temp_active_vertices, At(S.active_vertices_, i)),
                 temp_vertices_time |->
                    Append(r.temp_vertices_time, At(S.vertices_latest_time_, i)),
                 temp_vertices_index |-> index,
                 temp_adjacent_polygons |->
                    Put(r.temp_adjacent_polygons, key, adj[key]),
                 adjacent_polygons_ |-> adj]
           ELSE r

\* OctreeCompression::pruneStoredMesh(earliest_time_sec)
LegacyPruneStoredMesh(S, earliest_time_sec, garbage) ==
  IF Len(S.active_vertices_) = 0 THEN S
  ELSE LET r == LegacyPruneLoop(S, earliest_time_sec,
                                Len(S.vertices_latest_time_), garbage)
       IN  IF Len(r.temp_active_vertices) < Len(S.active_vertices_)
           THEN [S EXCEPT
                   !.active_vertices_ = r.temp_active_vertices,
                   !.vertices_latest_time_ = r.temp_vertices_time,
                   !.active_vertices_index_ = r.temp_vertices_index,
                   !.adjacent_polygons_ = r.temp_adjacent_polygons,
                   !.octree_ = addPointsFromInputCloud(r.temp_active_vertices)]
           ELSE [S EXCEPT !.adjacent_polygons_ = r.adjacent_polygons_]

\* ------------------------------------------------------------------ inputs
\* the input positions: the corner of every cell
LegacyPositions == {c * Resolution : c \in 0..(LegacyNumCells - 1)}

LegacyPoints == {Point(x) : x \in LegacyPositions}

\* vertex lists of a batch of the octree compressor
LegacyVertexLists ==
  UNION {{vs \in [1..n -> LegacyPoints] :
            CellOrdered(vs) /\ Repeats(vs) <= MaxRepeats} : n \in 3..MaxIn}

\* face lists of a batch of the octree compressor: one face
LegacySurfaceLists(n) == {<<f>> : f \in Faces(n)}

\* --------------------------------------------------------------- the system
LegacyWithinBounds(S) ==
  /\ Len(S.all_vertices_) <= LegacyMaxAll
  /\ Len(S.polygons_) <= LegacyMaxPolys

SetLegacyStore(S) ==
  /\ all_vertices_' = S.all_vertices_
  /\ polygons_' = S.polygons_
  /\ adjacent_polygons_' = S.adjacent_polygons_
  /\ active_vertices_' = S.active_vertices_
  /\ active_vertices_index_' = S.active_vertices_index_
  /\ vertices_latest_time_' = S.vertices_latest_time_
  /\ octree_' = S.octree_
  /\ UNCHANGED <<active_vertices_xyz_, structure_, max_stamp_seen,
                 last_stamp_seen, map_data_, map_octree_>>

\* a call whose accesses were all inside the vectors returns; one with an
\* access outside returns as well, or ends the process
Outcomes(outside) == IF outside THEN {"returns", "crashes"} ELSE {"returns"}

LegacyCall ==
  /\ ~crashed
  /\ \E input_vertices \in LegacyVertexLists, stamp_in_sec \in Stamps :
       \E input_surfaces \in LegacySurfaceLists(Len(input_vertices)) :
         \E r \in {LegacyCompressAndIntegrate(LegacyStore, input_vertices,
                                              input_surfaces, stamp_in_sec)} :
           \E outcome \in Outcomes(r.out_of_bounds) :
             /\ LegacyWithinBounds(r.store)
             /\ SetLegacyStore(IF outcome = "returns" THEN r.store
                               ELSE LegacyStore)
             /\ crashed' = (outcome = "crashes")

LegacyPruneCall ==
  /\ ~crashed
  /\ \E earliest_time_sec \in Cutoffs :
       \E garbage \in [LegacyReadsOutside(LegacyStore, earliest_time_sec)
                         -> GarbageIds] :
         \E outcome \in Outcomes(DOMAIN garbage # {}) :
           /\ SetLegacyStore(IF outcome = "returns"
                             THEN LegacyPruneStoredMesh(LegacyStore,
                                                        earliest_time_sec, garbage)
                             ELSE LegacyStore)
           /\ crashed' = (outcome = "crashes")

LegacyNext == LegacyCall \/ LegacyPruneCall

LegacySpec == Init /\ [][LegacyNext]_vars

\* ============== mesher_mapper::OctreeCompression (the map of the mapper node)
\* ------------------------------------------------------------------ bounds
\* cells 0 .. MapperNumCells-1 hold the positions of the mesh messages
MapperNumCells == 4
\* a mesh message has at most MaxCloud vertices
MaxCloud == 2

\* ------------------------------------------------------------------ inputs
MapperPositions == 0..(MapperNumCells * Resolution - 1)

\* a vertex of the message's cloud (pcl::PointXYZ)
MapperPoint(x) == [x |-> x]

\* new_cloud: the vertices of a mesh message
MapperClouds ==
  UNION {[1..n -> {MapperPoint(x) : x \in MapperPositions}] : n \in 0..MaxCloud}

\* ------------------------------------------------------------- InsertMesh
\* InsertPoint that adds every point
InsertPointWithoutOccupancyTest(m, p) == addPointToCloud(m.octree, m.cloud, p)

\* one iteration of the loop over new_cloud
InsertPoint(m, p) ==
  IF ~InBoundingBox(m.octree, p) \/ ~isVoxelOccupiedAtPoint(m.octree, p)
  THEN addPointToCloud(m.octree, m.cloud, p)
  ELSE m

RECURSIVE InsertPoints(_, _, _)
InsertPoints(m, new_cloud, n) ==
  IF n = 0 THEN m
  ELSE InsertPoint(InsertPoints(m, new_cloud, n - 1), new_cloud[n])

\* OctreeCompression::InsertMesh(mesh_msg): the callback of input_mesh
InsertMesh ==
  \E new_cloud \in MapperClouds :
    \E m \in {InsertPoints([cloud |-> map_data_, octree |-> map_octree_],
                           new_cloud, Len(new_cloud))} :
       /\ map_data_' = m.cloud
       /\ map_octree_' = m.octree
       /\ UNCHANGED <<all_vertices_, polygons_, adjacent_polygons_,
                      active_vertices_xyz_, active_vertices_index_,
                      vertices_latest_time_, structure_, max_stamp_seen,
                      last_stamp_seen, active_vertices_, octree_, crashed>>

MapperNext == InsertMesh

MapperSpec == Init /\ [][MapperNext]_vars

\* ------------------------------------------------------------------ claims
Slots == 1..Len(active_vertices_index_)

IsPrefix(s, t) == Len(s) <= Len(t) /\ SubSeq(t, 1, Len(s)) = s

\* the polygon indices that hold VertexId v
PolygonsWith(v) == {j \in 0..(Len(polygons_) - 1) : v \in Range(At(polygons_, j))}

\* the polygon indices the adjacency lists for VertexId v
AdjacentTo(v) ==
  IF v \in DOMAIN adjacent_polygons_ THEN Range(adjacent_polygons_[v]) ELSE {}

\* a prune has dropped a slot: some vertex is no longer active
SomeVertexPruned == Len(active_vertices_index_) < Len(all_vertices_)

\* C1: no two entries of polygons_ have the same set of three VertexIds
C1_NoTwoTrianglesEqual ==
  \A i, j \in 1..Len(polygons_) :
     i # j => Range(polygons_[i]) # Range(polygons_[j])

\* C2: every VertexId a call appends to all_vertices_ is in a triangle the same
\* call appends to polygons_
C2_CommittedOnlyIfUsed ==
  [][\A v \in Len(all_vertices_)..(Len(all_vertices_') - 1) :
       \E j \in (Len(polygons_) + 1)..Len(polygons_') :
          v \in Range(polygons_'[j])]_vars

\* C3: every entry of polygons_ has three pairwise distinct VertexIds, each
\* smaller than all_vertices_.size()
C3_TrianglesValid ==
  \A j \in 1..Len(polygons_) :
     /\ Len(polygons_[j]) = 3
     /\ Cardinality(Range(polygons_[j])) = 3
     /\ \A k \in 1..3 : polygons_[j][k] \in 0..(Len(all_vertices_) - 1)

\* two triangles are stored, one of them with a vertex committed after a prune
C3_Witness ==
  /\ Len(polygons_) >= 2
  /\ SomeVertexPruned
  /\ Len(all_vertices_) > NumCells
  /\ \E j \in 1..Len(polygons_) : (Len(all_vertices_) - 1) \in Range(polygons_[j])

\* C4: a flat batch fed twice in a row with the same stamp: the second call
\* leaves the store as the first left it and returns no new vertex or triangle
C4_FlatIdempotent ==
  \A input_vertices \in VertexLists, stamp_in_sec \in Stamps :
    \A input_surfaces \in SurfaceLists(Len(input_vertices)) :
      LET first == FlatCompressAndIntegrate(Store, input_vertices, input_surfaces,
                                            stamp_in_sec)
          second == FlatCompressAndIntegrate(first.store, input_vertices,
                                             input_surfaces, stamp_in_sec)
      IN  /\ second.store = first.store
          /\ second.new_vertices = <<>>
          /\ second.new_triangles = <<>>

\* C5: all_vertices_ and polygons_ are append-only under every operation, and
\* pruneStoredMesh leaves both as they are
C5_AppendOnly ==
  [][/\ IsPrefix(all_vertices_, all_vertices_')
     /\ IsPrefix(polygons_, polygons_')
     /\ PruneCall => (all_vertices_' = all_vertices_ /\ polygons_' = polygons_)]_vars

\* a vertex was committed after a prune dropped a slot, with triangles stored
C5_Witness ==
  /\ SomeVertexPruned
  /\ Len(all_vertices_) > NumCells
  /\ Len(polygons_) >= 1

\* C6: for every active slot, the adjacency of its VertexId lists exactly the
\* polygons that contain the VertexId
C6_AdjacencyExact ==
  \A s \in Slots :
     AdjacentTo(active_vertices_index_[s]) = PolygonsWith(active_vertices_index_[s])

\* after a prune, an active vertex is in two polygons and a pruned one in one
C6_Witness ==
  /\ SomeVertexPruned
  /\ \E s \in Slots : Cardinality(PolygonsWith(active_vertices_index_[s])) = 2
  /\ \E v \in 0..(Len(all_vertices_) - 1) :
        /\ v \notin Range(active_vertices_index_)
        /\ Cardinality(PolygonsWith(v)) = 1

\* C7: no two active slots hold positions in the same cell of the spatial index
C7_OneSlotPerCell ==
  \A s, u \in Slots :
     s # u => Cell(active_vertices_xyz_[s]) # Cell(active_vertices_xyz_[u])

\* every cell holds an active slot, and one cell was committed twice (its first
\* vertex was pruned)
C7_Witness ==
  /\ Len(active_vertices_xyz_) = NumCells
  /\ \E v, w \in 1..Len(all_vertices_) :
        v # w /\ Cell(XYZ(all_vertices_[v])) = Cell(XYZ(all_vertices_[w]))

\* C8: the position of every active slot is the position of the vertex of
\* all_vertices_ the slot names
C8_ActivePositionIsVertexPosition ==
  \A s \in Slots :
     /\ active_vertices_index_[s] \in 0..(Len(all_vertices_) - 1)
     /\ active_vertices_xyz_[s] = XYZ(At(all_vertices_, active_vertices_index_[s]))

\* slot numbers and VertexIds differ (a prune dropped an earlier slot) and a
\* vertex was committed after that
C8_Witness ==
  /\ \E s \in Slots : active_vertices_index_[s] # s - 1
  /\ Len(all_vertices_) > NumCells

\* C9: the last-seen time of every active slot is at least the largest stamp of
\* a batch that committed or re-observed it
C9_LatestTimeAtLeastLargestStamp ==
  \A s \in Slots : vertices_latest_time_[s] >= max_stamp_seen[s]

\* C9 as amended: the last-seen time of every active slot is the stamp of the
\* latest batch that committed or re-observed it
C9_LatestTimeIsLatestStamp ==
  /\ Len(vertices_latest_time_) = Len(last_stamp_seen)
  /\ \A s \in Slots : vertices_latest_time_[s] = last_stamp_seen[s]

\* a slot was re-observed with a smaller stamp than it had seen before
C9_Witness ==
  \E s \in Slots : vertices_latest_time_[s] < max_stamp_seen[s]

\* the slots pruneStoredMesh(t) has to keep, in order
KeptSlots(t) ==
  SelectSeq([s \in 1..Len(vertices_latest_time_) |-> s],
            LAMBDA s : vertices_latest_time_[s] > t)

\* C10: pruneStoredMesh(t) keeps exactly the slots with last-seen time > t, in
\* order and unchanged; when it drops none the whole store is unchanged
C10_PruneExact ==
  \A t \in Cutoffs :
     LET after == PruneStoredMesh(Store, t)
         kept == KeptSlots(t)
     IN  /\ after.active_vertices_xyz_ =
               [k \in 1..Len(kept) |-> active_vertices_xyz_[kept[k]]]
         /\ after.active_vertices_index_ =
               [k \in 1..Len(kept) |-> active_vertices_index_[kept[k]]]
         /\ after.vertices_latest_time_ =
               [k \in 1..Len(kept) |-> vertices_latest_time_[kept[k]]]
         /\ Len(kept) = Len(vertices_latest_time_) => after = Store

\* C11: from every reachable store, pruneStoredMesh(t) followed by
\* pruneStoredMesh(u) with u <= t leaves the store pruneStoredMesh(t) alone leaves
C11_PruneMonotone ==
  \A t \in Cutoffs, u \in Cutoffs :
     u <= t =>
       PruneStoredMesh(PruneStoredMesh(Store, t), u) = PruneStoredMesh(Store, t)

\* some cutoff drops a slot and keeps another
C11_Witness ==
  \E t \in Cutoffs :
     /\ Len(KeptSlots(t)) > 0
     /\ Len(KeptSlots(t)) < Len(vertices_latest_time_)

\* the store before the second iteration through the faces of a call
FacesStart(S) ==
  [polygons_          |-> S.polygons_,
   adjacent_polygons_ |-> S.adjacent_polygons_,
   new_triangles      |-> <<>>]

\* the polygons after the first k faces of a call on store S that ended with r
PolygonsAfter(S, r, input_surfaces, k) ==
  SecondPass(FacesStart(S), input_surfaces, k, r.reindex,
             Len(S.all_vertices_)).polygons_

\* face k of the call was appended to polygons_
FaceAppended(S, r, input_surfaces, k) ==
  Len(PolygonsAfter(S, r, input_surfaces, k))
    > Len(PolygonsAfter(S, r, input_surfaces, k - 1))

\* the input indices that are a corner of a face the call appended
AppendedCorners(S, r, input_surfaces) ==
  UNION {Range(input_surfaces[k]) :
           k \in {j \in 1..Len(input_surfaces) :
                    FaceAppended(S, r, input_surfaces, j)}}

\* the positions of pruned vertices with no active vertex in their cell
PrunedPositions ==
  {XYZ(At(all_vertices_, v)) :
     v \in {w \in 0..(Len(all_vertices_) - 1) :
              /\ w \notin Range(active_vertices_index_)
              /\ Cell(XYZ(At(all_vertices_, w))) \notin
                   {Cell(x) : x \in Range(active_vertices_xyz_)}}}

\* the VertexIds the call committed for input indices before i
CommittedBefore(r, i) ==
  {m \in DOMAIN r.reindex : m < i /\ r.reindex[m] >= Len(all_vertices_)}

\* C12: a flat batch with a pruned position p as corner of an appended triangle
\* commits p under the VertexId all_vertices_.size() of the call's entry, and
\* the old vertices and triangles stay
C12_PrunedRecommittedAtEntrySize ==
  \A input_vertices \in VertexLists, stamp_in_sec \in Stamps :
    \A input_surfaces \in SurfaceLists(Len(input_vertices)) :
      \A r \in {FlatCompressAndIntegrate(Store, input_vertices, input_surfaces,
                                        stamp_in_sec)} :
        \A i \in AppendedCorners(Store, r, input_surfaces) :
           XYZ(At(input_vertices, i)) \in PrunedPositions =>
             /\ i \in DOMAIN r.remapping
             /\ r.remapping[i] = Len(all_vertices_)
             /\ At(r.store.all_vertices_, r.remapping[i]) = At(input_vertices, i)
             /\ IsPrefix(all_vertices_, r.store.all_vertices_)
             /\ IsPrefix(polygons_, r.store.polygons_)

\* C12 as amended: the new VertexId is all_vertices_.size() of the call's entry
\* plus the number of vertices the call committed for earlier inputs
C12_PrunedRecommittedAsNew ==
  \A input_vertices \in VertexLists, stamp_in_sec \in Stamps :
    \A input_surfaces \in SurfaceLists(Len(input_vertices)) :
      \A r \in {FlatCompressAndIntegrate(Store, input_vertices, input_surfaces,
                                        stamp_in_sec)} :
        \A i \in AppendedCorners(Store, r, input_surfaces) :
           XYZ(At(input_vertices, i)) \in PrunedPositions =>
             /\ i \in DOMAIN r.remapping
             /\ r.remapping[i] =
                  Len(all_vertices_) + Cardinality(CommittedBefore(r, i))
             /\ At(r.store.all_vertices_, r.remapping[i]) = At(input_vertices, i)
             /\ IsPrefix(all_vertices_, r.store.all_vertices_)
             /\ IsPrefix(polygons_, r.store.polygons_)

\* a position is stored twice: the first vertex was pruned, the second is
\* active, and each is in a polygon
C12_Witness ==
  \E v, w \in 0..(Len(all_vertices_) - 1) :
     /\ v < w
     /\ XYZ(At(all_vertices_, v)) = XYZ(At(all_vertices_, w))
     /\ v \notin Range(active_vertices_index_)
     /\ w \in Range(active_vertices_index_)
     /\ PolygonsWith(v) # {}
     /\ PolygonsWith(w) # {}

\* the vertices of all blocks of a mesh, in the order the block variant reads them
RECURSIVE MeshVertices(_, _)
MeshVertices(mesh, n) ==
  IF n = 0 THEN <<>> ELSE MeshVertices(mesh, n - 1) \o mesh[n].points

\* the triangles (3j, 3j+1, 3j+2) over n vertices
MeshSurfaces(n) == [j \in 1..(n \div 3) |-> <<3 * j - 3, 3 * j - 2, 3 * j - 1>>]

\* C13: from the same store and with the same stamp, the flat variant fed the
\* vertices of a mesh with the triangles (3j, 3j+1, 3j+2) and the block variant
\* fed the mesh leave the same store and return the same new_vertices,
\* new_triangles and new_indices
C13_FlatAndBlockAgree ==
  \A mesh \in Meshes, stamp_in_sec \in Stamps :
    \A vs \in {MeshVertices(mesh, Len(mesh))} :
      \A flat \in {FlatCompressAndIntegrate(Store, vs, MeshSurfaces(Len(vs)),
                                           stamp_in_sec)},
         block \in {BlockCompressAndIntegrate(Store, mesh, stamp_in_sec)} :
           /\ flat.store = block.store
           /\ flat.new_vertices = block.new_vertices
           /\ flat.new_triangles = block.new_triangles
           /\ flat.new_indices = block.new_indices

\* the cells that hold an active vertex
ActiveCells == {Cell(x) : x \in Range(active_vertices_xyz_)}

\* the VertexId of the active vertex in the cell of position x
ActiveId(x) ==
  active_vertices_index_[CHOOSE s \in Slots :
                           Cell(active_vertices_xyz_[s]) = Cell(x)]

\* face k of a call that ended with r: when its corners are re-observations of
\* three different active vertices, it is appended exactly when no polygon stored
\* before it has the same vertex set, and then it is recorded in new_triangles
\* and in the adjacency of its three VertexIds
ReobservedFaceRule(r, input_vertices, input_surfaces, k) ==
  LET corners == [c \in 1..3 |-> XYZ(At(input_vertices, input_surfaces[k][c]))]
      before == PolygonsAfter(Store, r, input_surfaces, k - 1)
      after == PolygonsAfter(Store, r, input_surfaces, k)
  IN  (\A c \in 1..3 : Cell(corners[c]) \in ActiveCells) =>
        LET mapped == [c \in 1..3 |-> ActiveId(corners[c])]
            stored == \E j \in 1..Len(before) : Range(before[j]) = Range(mapped)
        IN  Cardinality(Range(mapped)) = 3 =>
              /\ FaceAppended(Store, r, input_surfaces, k) <=> ~stored
              /\ ~stored =>
                   /\ after = Append(before, mapped)
                   /\ mapped \in Range(r.new_triangles)
                   /\ \A v \in Range(mapped) :
                        /\ v \in DOMAIN r.store.adjacent_polygons_
                        /\ Len(before) \in Range(r.store.adjacent_polygons_[v])

\* the rule for every face of every flat batch
FlatReobservedFaces ==
  \A input_vertices \in VertexLists, stamp_in_sec \in Stamps :
    \A input_surfaces \in SurfaceLists(Len(input_vertices)) :
      \A r \in {FlatCompressAndIntegrate(Store, input_vertices, input_surfaces,
                                        stamp_in_sec)} :
        \A k \in 1..Len(input_surfaces) :
           ReobservedFaceRule(r, input_vertices, input_surfaces, k)

\* the rule for every face of every block batch
BlockReobservedFaces ==
  \A mesh \in Meshes, stamp_in_sec \in Stamps :
    \A vs \in {MeshVertices(mesh, Len(mesh))} :
      \A r \in {BlockCompressAndIntegrate(Store, mesh, stamp_in_sec)} :
        \A k \in 1..(Len(vs) \div 3) :
           ReobservedFaceRule(r, vs, MeshSurfaces(Len(vs)), k)

\* C14: in both variants, a non-degenerate input triangle whose corners are all
\* re-observations of active vertices is appended to polygons_ and new_triangles
\* if and only if no stored triangle has the same set of VertexIds, and then its
\* index is added to the adjacency of its three VertexIds
C14_ReobservedTriangleAppendedIffNew ==
  FlatReobservedFaces /\ BlockReobservedFaces

\* C15: in the block variant, every input vertex (block b, index i in the block)
\* that lies in the cell of an active vertex is recorded in the output remap as
\* remapping[b][i] = the VertexId of that active vertex
C15_BlockRemapHasReobservations ==
  \A mesh \in Meshes, stamp_in_sec \in Stamps :
    \A r \in {BlockCompressAndIntegrate(Store, mesh, stamp_in_sec)} :
      \A b \in 1..Len(mesh) :
        \A i \in 0..(Len(mesh[b].points) - 1) :
           Cell(XYZ(At(mesh[b].points, i))) \in ActiveCells =>
             /\ mesh[b].index \in DOMAIN r.remapping
             /\ i \in DOMAIN r.remapping[mesh[b].index]
             /\ r.remapping[mesh[b].index][i] = ActiveId(XYZ(At(mesh[b].points, i)))

\* the VertexIds a call that ended with r committed
CommittedIds(r) == Len(all_vertices_)..(Len(r.store.all_vertices_) - 1)

\* the committed VertexIds whose vertex lies in the cell of position x
CommittedInCell(r, x) ==
  {v \in CommittedIds(r) : Cell(XYZ(At(r.store.all_vertices_, v))) = Cell(x)}

\* the remapping of a flat call that ended with r: every input of a committed
\* provisional slot is mapped to the VertexId of the slot, and no input is
\* mapped to a VertexId committed for another slot
FanOutExact(r, input_vertices) ==
  /\ \A m \in 0..(Len(input_vertices) - 1) :
        \A v \in CommittedInCell(r, XYZ(At(input_vertices, m))) :
           m \in DOMAIN r.remapping /\ r.remapping[m] = v
  /\ \A m \in DOMAIN r.remapping :
        r.remapping[m] \in CommittedIds(r) =>
          r.remapping[m] \in CommittedInCell(r, XYZ(At(input_vertices, m)))

\* C16: in the flat variant, for every provisional slot committed with VertexId
\* v, remapping holds m -> v for every input m that converged onto the slot, and
\* no entry maps an input to the VertexId of a different provisional slot
C16_FlatRemapFanOut ==
  \A input_vertices \in VertexLists, stamp_in_sec \in Stamps :
    \A input_surfaces \in SurfaceLists(Len(input_vertices)) :
      \A r \in {FlatCompressAndIntegrate(Store, input_vertices, input_surfaces,
                                        stamp_in_sec)} :
         FanOutExact(r, input_vertices)

\* C17: after a flat call, every input vertex that is a corner of an input
\* triangle appended in the call is in remapping, and the vertex of
\* all_vertices_ it is mapped to lies in the cell of the input vertex
C17_RoundTripRemap ==
  \A input_vertices \in VertexLists, stamp_in_sec \in Stamps :
    \A input_surfaces \in SurfaceLists(Len(input_vertices)) :
      \A r \in {FlatCompressAndIntegrate(Store, input_vertices, input_surfaces,
                                        stamp_in_sec)} :
        \A i \in AppendedCorners(Store, r, input_surfaces) :
           /\ i \in DOMAIN r.remapping
           /\ r.remapping[i] \in 0..(Len(r.store.all_vertices_) - 1)
           /\ Cell(XYZ(At(r.store.all_vertices_, r.remapping[i])))
                = Cell(XYZ(At(input_vertices, i)))

\* a flat batch on this store appends a triangle with a corner that is mapped
\* to a stored vertex at another position of its cell, and with a corner that
\* the batch commits
C17_Witness ==
  \E input_vertices \in VertexLists, stamp_in_sec \in Stamps :
    \E input_surfaces \in SurfaceLists(Len(input_vertices)) :
      \E r \in {FlatCompressAndIntegrate(Store, input_vertices, input_surfaces,
                                        stamp_in_sec)} :
        /\ SomeVertexPruned
        /\ \E i \in AppendedCorners(Store, r, input_surfaces) :
              /\ i \in DOMAIN r.remapping
              /\ r.remapping[i] < Len(all_vertices_)
              /\ XYZ(At(all_vertices_, r.remapping[i])) # XYZ(At(input_vertices, i))
        /\ \E i \in AppendedCorners(Store, r, input_surfaces) :
              /\ i \in DOMAIN r.remapping
              /\ r.remapping[i] \in CommittedIds(r)

\* the VertexIds of the active vertices with an observed position in their cell
ReobservedIds(observed) ==
  {ActiveId(x) : x \in {y \in observed : Cell(y) \in ActiveCells}}

\* new_indices of a call that ended with r has no duplicates, lists exactly the
\* re-observed and the committed VertexIds, and each of them is active after the
\* call with the batch stamp as last-seen time
NewIndicesExact(r, observed, stamp_in_sec) ==
  /\ Cardinality(Range(r.new_indices)) = Len(r.new_indices)
  /\ Range(r.new_indices) = ReobservedIds(observed) \cup CommittedIds(r)
  /\ \A v \in Range(r.new_indices) :
        \E s \in 1..Len(r.store.active_vertices_index_) :
           /\ r.store.active_vertices_index_[s] = v
           /\ r.store.vertices_latest_time_[s] = stamp_in_sec

\* C18: new_indices returned by compressAndIntegrate, flat or block, has no
\* duplicates and is exactly the set of VertexIds re-observed or committed in
\* the batch; each of them is active after the call with last-seen time equal
\* to the batch stamp
C18_NewIndicesExact ==
  /\ \A input_vertices \in VertexLists, stamp_in_sec \in Stamps :
       \A input_surfaces \in SurfaceLists(Len(input_vertices)) :
         \A r \in {FlatCompressAndIntegrate(Store, input_vertices, input_surfaces,
                                           stamp_in_sec)} :
            NewIndicesExact(r, FlatObserved(input_vertices, input_surfaces),
                            stamp_in_sec)
  /\ \A mesh \in Meshes, stamp_in_sec \in Stamps :
       \A r \in {BlockCompressAndIntegrate(Store, mesh, stamp_in_sec)} :
          NewIndicesExact(r, BlockObserved(mesh), stamp_in_sec)

\* after a prune, a flat batch on this store observes an active vertex twice
\* and commits a vertex
C18_Witness ==
  \E input_vertices \in VertexLists, stamp_in_sec \in Stamps :
    \E input_surfaces \in SurfaceLists(Len(input_vertices)) :
      \E r \in {FlatCompressAndIntegrate(Store, input_vertices, input_surfaces,
                                        stamp_in_sec)} :
        /\ SomeVertexPruned
        /\ CommittedIds(r) # {}
        /\ \E a, b \in 1..Len(input_vertices) :
              /\ a # b
              /\ Cell(XYZ(input_vertices[a])) = Cell(XYZ(input_vertices[b]))
              /\ Cell(XYZ(input_vertices[a])) \in ActiveCells

\* every vertex of the batch lies in the cell of an active vertex and every
\* face maps to the vertex set of a stored polygon
AllKnown(vs, input_surfaces) ==
  /\ \A k \in 1..Len(vs) : Cell(XYZ(vs[k])) \in ActiveCells
  /\ \A k \in 1..Len(input_surfaces) :
        \E j \in 1..Len(polygons_) :
           Range(polygons_[j])
             = {ActiveId(XYZ(At(vs, input_surfaces[k][c]))) : c \in 1..3}

\* the call that ended with r left the store as it was but for the last-seen
\* times, returned no new vertex and no new triangle, and every slot with an
\* input of vs in its cell has the batch stamp as last-seen time
OnlyTimesChanged(r, vs, stamp_in_sec) ==
  /\ r.store.all_vertices_ = all_vertices_
  /\ r.store.polygons_ = polygons_
  /\ r.store.adjacent_polygons_ = adjacent_polygons_
  /\ r.store.active_vertices_xyz_ = active_vertices_xyz_
  /\ r.store.active_vertices_index_ = active_vertices_index_
  /\ r.store.structure_ = structure_
  /\ r.new_vertices = <<>>
  /\ r.new_triangles = <<>>
  /\ Len(r.store.vertices_latest_time_) = Len(vertices_latest_time_)
  /\ \A s \in Slots :
        Cell(active_vertices_xyz_[s]) \in {Cell(XYZ(vs[k])) : k \in 1..Len(vs)}
          => r.store.vertices_latest_time_[s] = stamp_in_sec

\* C19: a batch in which every input vertex falls in the cell of an active
\* vertex and every triangle maps to a stored vertex set changes nothing in the
\* store except last-seen times, returns no new vertex and no new triangle and
\* sets the last-seen time of each matched slot to the batch stamp (flat and
\* block); the flat remapping maps each input to the VertexId of the active
\* vertex of its cell
C19_KnownBatchChangesOnlyTimes ==
  /\ \A input_vertices \in VertexLists, stamp_in_sec \in Stamps :
       \A input_surfaces \in SurfaceLists(Len(input_vertices)) :
         AllKnown(input_vertices, input_surfaces) =>
           \A r \in {FlatCompressAndIntegrate(Store, input_vertices,
                                             input_surfaces, stamp_in_sec)} :
              /\ OnlyTimesChanged(r, input_vertices, stamp_in_sec)
              /\ r.remapping =
                   [i \in 0..(Len(input_vertices) - 1) |->
                      ActiveId(XYZ(At(input_vertices, i)))]
  /\ \A mesh \in Meshes, stamp_in_sec \in Stamps :
       \A vs \in {MeshVertices(mesh, Len(mesh))} :
         AllKnown(vs, MeshSurfaces(Len(vs))) =>
           \A r \in {BlockCompressAndIntegrate(Store, mesh, stamp_in_sec)} :
              OnlyTimesChanged(r, vs, stamp_in_sec)

\* after a prune, a flat batch of known vertices and triangles on this store
\* has a vertex at another position than the stored vertex of its cell and a
\* stamp that differs from the last-seen time of a slot it matches
C19_Witness ==
  \E input_vertices \in VertexLists, stamp_in_sec \in Stamps :
    \E input_surfaces \in SurfaceLists(Len(input_vertices)) :
      /\ SomeVertexPruned
      /\ AllKnown(input_vertices, input_surfaces)
      /\ \E k \in 1..Len(input_vertices) :
            XYZ(input_vertices[k]) \notin Range(active_vertices_xyz_)
      /\ \E s \in Slots :
            /\ Cell(active_vertices_xyz_[s])
                 \in {Cell(XYZ(input_vertices[k])) : k \in 1..Len(input_vertices)}
            /\ vertices_latest_time_[s] # stamp_in_sec

\* the cells of the batch without an active vertex: one provisional vertex each
NewCells(vs) == {Cell(XYZ(vs[k])) : k \in 1..Len(vs)} \ ActiveCells

\* the cells of the three corners of face f
FaceCells(vs, f) == {Cell(XYZ(At(vs, f[c]))) : c \in 1..3}

\* the provisional vertices no face keeps: every face that refers to the cell
\* is degenerate after reindexing (two corners in one cell)
DiscardedCells(vs, input_surfaces) ==
  {c \in NewCells(vs) :
     \A k \in 1..Len(input_surfaces) :
        c \in FaceCells(vs, input_surfaces[k])
          => Cardinality(FaceCells(vs, input_surfaces[k])) < 3}

\* the provisional vertex of cell c left no trace in the store or the outputs
\* of the call that ended with r, but for the remapping
DiscardedFromStore(r, c) ==
  /\ \A v \in CommittedIds(r) : Cell(XYZ(At(r.store.all_vertices_, v))) # c
  /\ \A s \in 1..Len(r.store.active_vertices_xyz_) :
        Cell(r.store.active_vertices_xyz_[s]) # c
  /\ c \notin DOMAIN r.store.structure_
  /\ \A k \in 1..Len(r.new_vertices) : Cell(XYZ(r.new_vertices[k])) # c
  /\ \A v \in Range(r.new_indices) : Cell(XYZ(At(r.store.all_vertices_, v))) # c

\* no input of cell c is a key of the remapping
DiscardedFromRemapping(r, vs, c) ==
  \A m \in DOMAIN r.remapping : Cell(XYZ(At(vs, m))) # c

\* the call committed one vertex for each provisional vertex that was kept: no
\* VertexId went to a discarded one
NoIdConsumed(r, vs, input_surfaces) ==
  Len(r.store.all_vertices_) =
    Len(all_vertices_)
      + Cardinality(NewCells(vs) \ DiscardedCells(vs, input_surfaces))

\* C20: a provisional vertex of a flat batch that no input triangle refers to,
\* or only triangles that are degenerate after reindexing, is after the call in
\* neither all_vertices_, the active set, the spatial index, new_vertices,
\* new_indices nor the remapping, and no VertexId is consumed for it
C20_OrphanProvisionalDiscarded ==
  \A b \in FlatBatches, stamp_in_sec \in Stamps :
    \A r \in {FlatCompressAndIntegrate(Store, b[1], b[2], stamp_in_sec)} :
      /\ NoIdConsumed(r, b[1], b[2])
      /\ \A c \in DiscardedCells(b[1], b[2]) :
            /\ DiscardedFromStore(r, c)
            /\ DiscardedFromRemapping(r, b[1], c)

\* C21: a flat call with fewer than 3 input vertices or with no input surface
\* leaves the whole store unchanged, the last-seen times of the active vertices
\* its inputs would re-observe included, and returns empty new_vertices,
\* new_triangles, new_indices and remapping
C21_EarlyExitChangesNothing ==
  \A b \in EarlyExitBatches, stamp_in_sec \in Stamps :
    \A r \in {FlatCompressAndIntegrate(Store, b[1], b[2], stamp_in_sec)} :
      /\ r.store = Store
      /\ r.new_vertices = <<>>
      /\ r.new_triangles = <<>>
      /\ r.new_indices = <<>>
      /\ r.remapping = EmptyMap

\* an early-exit batch has a vertex in the cell of an active vertex whose
\* last-seen time differs from the stamp of the batch
C21_Witness ==
  \E b \in EarlyExitBatches, stamp_in_sec \in Stamps :
    \E k \in 1..Len(b[1]), s \in Slots :
       /\ Cell(XYZ(b[1][k])) = Cell(active_vertices_xyz_[s])
       /\ vertices_latest_time_[s] # stamp_in_sec

\* all_vertices_, polygons_, the adjacency and the active set of store A are
\* those of the current store
SameMeshAndActiveSet(A) ==
  /\ A.all_vertices_ = all_vertices_
  /\ A.polygons_ = polygons_
  /\ A.adjacent_polygons_ = adjacent_polygons_
  /\ A.active_vertices_xyz_ = active_vertices_xyz_
  /\ A.active_vertices_index_ = active_vertices_index_
  /\ A.vertices_latest_time_ = vertices_latest_time_

\* C22: when a spatial-index insert or query fails during a flat
\* compressAndIntegrate, the call ends with all_vertices_, polygons_, the
\* adjacency and the active set as they were at the call's entry
C22_IndexFailureRollsBack ==
  \A input_vertices \in VertexLists, stamp_in_sec \in Stamps :
    /\ \A j \in 0..(Len(input_vertices) - 1) :
          SameMeshAndActiveSet(
            FlatAbandonedAtQuery(Store, input_vertices, stamp_in_sec, j))
    /\ \A input_surfaces \in SurfaceLists(Len(input_vertices)) :
          \A i \in FlatKept(Store, input_vertices, input_surfaces, stamp_in_sec) :
             SameMeshAndActiveSet(
               FlatAbandonedAtInsert(Store, input_vertices, input_surfaces,
                                     stamp_in_sec, i))

\* the smallest input index with a vertex in cell c
FirstIndexInCell(vs, c) ==
  CHOOSE k \in 0..(Len(vs) - 1) :
     /\ Cell(XYZ(At(vs, k))) = c
     /\ \A m \in 0..(k - 1) : Cell(XYZ(At(vs, m))) # c

\* the cells of the vertices of vs
InputCells(vs) == {Cell(XYZ(vs[k])) : k \in 1..Len(vs)}

\* the outputs of the call that ended with r are the growth of the store, and
\* the committed VertexIds are consecutive from the old all_vertices_.size(), in
\* the order in which the cells of the committed vertices first occur in vs
OutputsAreGrowth(r, vs) ==
  /\ r.store.all_vertices_ = all_vertices_ \o r.new_vertices
  /\ r.store.polygons_ = polygons_ \o r.new_triangles
  /\ r.store.active_vertices_index_ =
       active_vertices_index_
         \o [k \in 1..Len(r.new_vertices) |-> Len(all_vertices_) + k - 1]
  /\ \A v \in CommittedIds(r) :
        Cell(XYZ(At(r.store.all_vertices_, v))) \in InputCells(vs)
  /\ \A v, w \in CommittedIds(r) :
        v < w =>
          FirstIndexInCell(vs, Cell(XYZ(At(r.store.all_vertices_, v))))
            < FirstIndexInCell(vs, Cell(XYZ(At(r.store.all_vertices_, w))))

\* C23: new_vertices is the suffix of all_vertices_ the call appended,
\* new_triangles the suffix of polygons_ it appended, and the VertexIds committed
\* in the call are the consecutive integers from the pre-call
\* all_vertices_.size(), in order of first occurrence of the kept provisionals
\* in the input (flat and block)
C23_OutputsAreGrowth ==
  /\ \A b \in FlatBatches, stamp_in_sec \in Stamps :
       \A r \in {FlatCompressAndIntegrate(Store, b[1], b[2], stamp_in_sec)} :
          OutputsAreGrowth(r, b[1])
  /\ \A mesh \in Meshes, stamp_in_sec \in Stamps :
       \A r \in {BlockCompressAndIntegrate(Store, mesh, stamp_in_sec)} :
          OutputsAreGrowth(r, MeshVertices(mesh, Len(mesh)))

\* after a prune, a flat batch on this store re-observes an active vertex,
\* commits two vertices and appends a triangle
C23_Witness ==
  \E b \in FlatBatches, stamp_in_sec \in Stamps :
    \E r \in {FlatCompressAndIntegrate(Store, b[1], b[2], stamp_in_sec)} :
      /\ SomeVertexPruned
      /\ Len(r.new_vertices) >= 2
      /\ Len(r.new_triangles) >= 1
      /\ InputCells(b[1]) \cap ActiveCells # {}

\* the vertex committed as VertexId v by the call that ended with r is the
\* first vertex of vs in its cell: in all_vertices_, the active set and
\* new_vertices
FirstInputStored(r, vs, v) ==
  LET c == Cell(XYZ(At(r.store.all_vertices_, v)))
  IN  /\ c \in InputCells(vs)
      /\ \A first \in {At(vs, FirstIndexInCell(vs, c))} :
            /\ At(r.store.all_vertices_, v) = first
            /\ At(r.new_vertices, v - Len(all_vertices_)) = first
            /\ \E s \in 1..Len(r.store.active_vertices_index_) :
                  /\ r.store.active_vertices_index_[s] = v
                  /\ r.store.active_vertices_xyz_[s] = XYZ(first)

\* C24: when several input vertices of a batch fall in the same unoccupied
\* cell, the vertex committed for the cell (position and colour in
\* all_vertices_, the active set and new_vertices) is the one with the smallest
\* input index (flat and block)
C24_EarliestInputWins ==
  /\ \A b \in FlatBatches, stamp_in_sec \in Stamps :
       \A r \in {FlatCompressAndIntegrate(Store, b[1], b[2], stamp_in_sec)} :
          \A v \in CommittedIds(r) : FirstInputStored(r, b[1], v)
  /\ \A mesh \in Meshes, stamp_in_sec \in Stamps :
       \A r \in {BlockCompressAndIntegrate(Store, mesh, stamp_in_sec)} :
          \A v \in CommittedIds(r) :
             FirstInputStored(r, MeshVertices(mesh, Len(mesh)), v)

\* after a prune, a flat batch on this store commits a vertex for a cell that
\* holds two inputs at different positions
C24_Witness ==
  \E b \in FlatBatches, stamp_in_sec \in Stamps :
    \E r \in {FlatCompressAndIntegrate(Store, b[1], b[2], stamp_in_sec)} :
      /\ SomeVertexPruned
      /\ \E v \in CommittedIds(r) :
            \E k, m \in 1..Len(b[1]) :
               /\ Cell(XYZ(b[1][k])) = Cell(XYZ(At(r.store.all_vertices_, v)))
               /\ Cell(XYZ(b[1][m])) = Cell(XYZ(b[1][k]))
               /\ XYZ(b[1][m]) # XYZ(b[1][k])

C27_ActiveIndexIncreasing ==
  /\ \A s, u \in Slots : s < u => active_vertices_index_[s] < active_vertices_index_[u]
  /\ \A s \in Slots : active_vertices_index_[s] < Len(all_vertices_)

\* the first VertexId is pruned, an older vertex is still active and a vertex
\* committed after the prune is active too
C27_Witness ==
  /\ Len(active_vertices_index_) >= 2
  /\ 0 \notin Range(active_vertices_index_)
  /\ \E s \in Slots : active_vertices_index_[s] < NumCells
  /\ \E s \in Slots : active_vertices_index_[s] >= NumCells

\* the active slots of the octree compressor
LegacySlots == 1..Len(active_vertices_)

\* the batches the claims about one call of the octree compressor are checked
\* with
LegacyBatches ==
  UNION {{<<vs, fs>> : fs \in LegacySurfaceLists(Len(vs))} : vs \in LegacyVertexLists}

\* the last-seen times after the call r: stamp_in_sec in the slots of the
\* vertices the batch re-observed, as before in the other slots that were active
OwnSlotsStamped(r, stamp_in_sec) ==
  /\ ~r.out_of_bounds
  /\ \A s \in LegacySlots :
        r.store.vertices_latest_time_[s] =
          IF active_vertices_index_[s] \in Range(r.new_indices)
          THEN stamp_in_sec
          ELSE vertices_latest_time_[s]

\* C28: a batch of the octree compressor that re-observes an active vertex and
\* adds a triangle sets the last-seen time of that vertex's own active slot to
\* the batch stamp, with every write inside vertices_latest_time_, also after a
\* prune made active slots differ from VertexIds
C28_ReobservedTimeInOwnSlot ==
  ~crashed =>
    \A b \in LegacyBatches, stamp_in_sec \in Stamps :
      \A r \in {LegacyCompressAndIntegrate(LegacyStore, b[1], b[2], stamp_in_sec)} :
         (/\ Len(r.new_triangles) > 0
          /\ \E id \in Range(r.new_indices) : id < Len(all_vertices_))
           => OwnSlotsStamped(r, stamp_in_sec)

\* the same before any prune made an active slot differ from its VertexId
C28_HoldsWhileSlotIsId ==
  (~crashed /\ \A s \in LegacySlots : active_vertices_index_[s] = s - 1) =>
    \A b \in LegacyBatches, stamp_in_sec \in Stamps :
      \A r \in {LegacyCompressAndIntegrate(LegacyStore, b[1], b[2], stamp_in_sec)} :
         (/\ Len(r.new_triangles) > 0
          /\ \E id \in Range(r.new_indices) : id < Len(all_vertices_))
           => OwnSlotsStamped(r, stamp_in_sec)

\* the adjacency map after a prune: its keys are the VertexIds of the kept
\* slots, each with the entry it had before the prune
AdjacencyReduced(before, after) ==
  /\ DOMAIN after.adjacent_polygons_ = Range(after.active_vertices_index_)
  /\ \A v \in DOMAIN after.adjacent_polygons_ :
        after.adjacent_polygons_[v] = MapRead(before.adjacent_polygons_, v, <<>>)

\* C25, MeshCompression::pruneStoredMesh: a prune that drops a slot reduces
\* adjacent_polygons_ to the kept VertexIds with their entries, and the loop
\* index i < vertices_latest_time_.size() is inside the other two slot arrays
C25_MeshPruneReducesAdjacency ==
  \A t \in Cutoffs :
    \A after \in {PruneStoredMesh(Store, t)} :
       Len(after.active_vertices_index_) < Len(active_vertices_index_) =>
         /\ AdjacencyReduced(Store, after)
         /\ Len(vertices_latest_time_) <= Len(active_vertices_xyz_)
         /\ Len(vertices_latest_time_) <= Len(active_vertices_index_)

\* a prune dropped the first of the slots and kept another: the adjacency map
\* has an entry for each kept vertex and for no other vertex with a triangle
C25_MeshWitness ==
  /\ Len(active_vertices_index_) > 0
  /\ 0 \notin Range(active_vertices_index_)
  /\ Len(polygons_) > 0
  /\ 0 \in Range(polygons_[1])
  /\ DOMAIN adjacent_polygons_ = Range(active_vertices_index_)

\* C25, OctreeCompression::pruneStoredMesh: a prune that drops a slot reduces
\* adjacent_polygons_ to the kept VertexIds with their entries, and no
\* iteration reads a vector past its end
C25_PruneReducesAdjacency ==
  ~crashed =>
    \A t \in Cutoffs :
      /\ LegacyReadsOutside(LegacyStore, t) = {}
      /\ \A garbage \in [LegacyReadsOutside(LegacyStore, t) -> GarbageIds] :
           \A after \in {LegacyPruneStoredMesh(LegacyStore, t, garbage)} :
              Len(after.active_vertices_index_) < Len(active_vertices_index_) =>
                AdjacencyReduced(LegacyStore, after)

\* the same for the prunes that drop only the last slots
C25_HoldsWhenLastSlotsDropped ==
  ~crashed =>
    \A t \in Cutoffs :
      LegacyReadsOutside(LegacyStore, t) = {} =>
        \A after \in {LegacyPruneStoredMesh(LegacyStore, t, EmptyMap)} :
           Len(after.active_vertices_index_) < Len(active_vertices_index_) =>
             AdjacencyReduced(LegacyStore, after)

\* every occupied voxel of the map's octree holds one point of map_data_, and
\* no two points of map_data_ are in one voxel
OnePointPerVoxel ==
  /\ \A v \in DOMAIN map_octree_ : Cardinality(map_octree_[v]) = 1
  /\ \A i \in 1..Len(map_data_) : (i - 1) \in map_octree_[Voxel(map_data_[i])]
  /\ \A i, j \in 1..Len(map_data_) :
        Voxel(map_data_[i]) = Voxel(map_data_[j]) => i = j

\* a step keeps the points of map_data_ in place and appends only points whose
\* voxel held no point before the step
GrowsByFreeVoxels ==
  /\ IsPrefix(map_data_, map_data_')
  /\ \A k \in (Len(map_data_) + 1)..Len(map_data_') :
        ~isVoxelOccupiedAtPoint(map_octree_, map_data_'[k])

\* C29: after any sequence of InsertMesh callbacks map_data_ holds at most one
\* point per occupied voxel; a callback appends a point only when its voxel is
\* unoccupied (a point outside the bounding box is in no occupied voxel) and
\* removes none
C29_OnePointPerVoxel == []OnePointPerVoxel /\ [][GrowsByFreeVoxels]_vars

\* every voxel of the grid is occupied, the points were not stored in the order
\* of their voxels and one of them is not the corner of its voxel
C29_Witness ==
  /\ Len(map_data_) = MapperNumCells
  /\ \E i \in 1..(Len(map_data_) - 1) :
        Voxel(map_data_[i]) > Voxel(map_data_[i + 1])
  /\ \E i \in 1..Len(map_data_) : map_data_[i].x % Resolution # 0
====
